---- MODULE Spec2Model ----
(***************************************************************************)
(* Verification model of the MFU calculator backend                        *)
(* (backend/app/services/mfu_calculator.py, backend/app/routers/*.py).     *)
(*                                                                         *)
(* Python floats are modelled as exact decimal-scaled rationals            *)
(*     [n |-> numerator, d |-> denominator, e |-> power of ten]            *)
(* standing for (n / d) * 10^e, kept normalised: d > 0, gcd(n, d) = 1,     *)
(* neither n nor d a multiple of ten, zero = [n=0, d=1, e=0].  Python ints *)
(* are TLA+ integers.  Every arithmetic step of the source is one operator *)
(* application here, in the order the source performs it.                  *)
(***************************************************************************)
EXTENDS Integers, Sequences, FiniteSets, TLC

VARIABLES
    pc,          \* position of the modelled call: "ready" | "done"
    hardware,    \* hardware dict handed to calculate_mfu / calculate_concurrency_logic
    model,       \* model dict
    input_data,  \* workload dict
    result,      \* value returned by the call
    hardware_table,       \* rows of the hardware table, in id order
    model_table,          \* rows of the models table, in id order
    calculation_history,  \* rows of the calculation_history table, in id order
    concurrency_history,  \* rows of the concurrency_history table, in id order
    response              \* the HTTP response to the last request

vars == <<pc, hardware, model, input_data, result,
          hardware_table, model_table, calculation_history, concurrency_history, response>>

\* the variables of the HTTP service, untouched by a direct call of the core
service_vars ==
    <<hardware_table, model_table, calculation_history, concurrency_history, response>>

NoValue == "none"

\* Python's None (and an empty dict or list: all three are falsy)
None == <<>>

(***************************************************************************)
(* Exact arithmetic standing for Python's float operators                  *)
(***************************************************************************)
Abs(x) == IF x < 0 THEN -x ELSE x

Min(a, b) == IF a <= b THEN a ELSE b

Max(a, b) == IF a >= b THEN a ELSE b

RECURSIVE GCD(_, _)
GCD(a, b) == IF b = 0 THEN a ELSE GCD(b, a % b)

RECURSIVE Pow10(_)
Pow10(k) == IF k <= 0 THEN 1 ELSE 10 * Pow10(k - 1)

\* number of decimal digits of a natural number (0 has 1 digit)
RECURSIVE Digits(_)
Digits(x) == IF x < 10 THEN 1 ELSE 1 + Digits(x \div 10)

\* number of trailing decimal zeros of a positive natural number
RECURSIVE Tens(_)
Tens(x) == IF x = 0 \/ x % 10 # 0 THEN 0 ELSE 1 + Tens(x \div 10)

Zero == [n |-> 0, d |-> 1, e |-> 0]

\* the outcome of a float operation that raised ZeroDivisionError; every
\* operation on it yields it again, so a raise reaches the value returned
ZeroDivisionError == [n |-> 0, d |-> 0, e |-> 0]

Raised(a) == a.d = 0

Norm(n, d, e) ==
    IF d = 0 THEN ZeroDivisionError
    ELSE IF n = 0 THEN Zero
    ELSE LET s  == IF (n < 0) # (d < 0) THEN -1 ELSE 1
             g  == GCD(Abs(n), Abs(d))
             n1 == Abs(n) \div g
             d1 == Abs(d) \div g
             tn == Tens(n1)
             td == Tens(d1)
         IN [n |-> s * (n1 \div Pow10(tn)),
             d |-> d1 \div Pow10(td),
             e |-> e + tn - td]

\* an int as a float
F(i) == Norm(i, 1, 0)

\* the decimal literal m * 10^e, e.g. 2.039 = Dec(2039, -3), 1e12 = Dec(1, 12)
Dec(m, e) == Norm(m, 1, e)

Sign(a) == IF a.n > 0 THEN 1 ELSE IF a.n < 0 THEN -1 ELSE 0

Neg(a) == [a EXCEPT !.n = -a.n]

Mul(a, b) ==
    IF Raised(a) \/ Raised(b) THEN ZeroDivisionError
    ELSE IF a.n = 0 \/ b.n = 0 THEN Zero
    ELSE LET g1 == GCD(Abs(a.n), b.d)
             g2 == GCD(Abs(b.n), a.d)
         IN Norm((a.n \div g1) * (b.n \div g2), (a.d \div g2) * (b.d \div g1), a.e + b.e)

\* a / b; Python raises ZeroDivisionError when b is 0
Div(a, b) ==
    IF Raised(a) \/ Raised(b) \/ b.n = 0 THEN ZeroDivisionError
    ELSE Mul(a, [n |-> Sign(b) * b.d, d |-> Abs(b.n), e |-> -b.e])

Add(a, b) ==
    IF Raised(a) \/ Raised(b) THEN ZeroDivisionError
    ELSE IF a.n = 0 THEN b
    ELSE IF b.n = 0 THEN a
    ELSE LET e  == Min(a.e, b.e)
             l  == (a.d \div GCD(a.d, b.d)) * b.d
             an == a.n * Pow10(a.e - e) * (l \div a.d)
             bn == b.n * Pow10(b.e - e) * (l \div b.d)
         IN Norm(an + bn, l, e)

Sub(a, b) == Add(a, Neg(b))

\* bounds on log10(a) for a > 0: 10^MagLo(a) <= a < 10^MagHi(a)
MagLo(a) == Digits(a.n) - Digits(a.d) + a.e - 1

MagHi(a) == Digits(a.n) - Digits(a.d) + a.e + 1

\* the sign of p1/q1 - p2/q2 for naturals p1, p2 and positive q1, q2, by
\* comparing the continued fractions (no product is formed)
RECURSIVE CmpFrac(_, _, _, _)
CmpFrac(p1, q1, p2, q2) ==
    LET i1 == p1 \div q1
        i2 == p2 \div q2
        r1 == p1 % q1
        r2 == p2 % q2
    IN IF i1 # i2 THEN (IF i1 < i2 THEN -1 ELSE 1)
       ELSE IF r1 = 0 /\ r2 = 0 THEN 0
       ELSE IF r1 = 0 THEN -1
       ELSE IF r2 = 0 THEN 1
       ELSE -CmpFrac(q1, r1, q2, r2)

\* the sign of a - b for positive a and b
CmpPos(a, b) ==
    IF MagHi(a) <= MagLo(b) THEN -1
    ELSE IF MagHi(b) <= MagLo(a) THEN 1
    ELSE LET k == a.e - b.e
         IN IF k >= 0
            THEN IF a.n <= b.d THEN CmpFrac(a.n * Pow10(k), a.d, b.n, b.d)
                               ELSE CmpFrac(a.n, a.d, b.n, b.d * Pow10(k))
            ELSE IF b.n <= a.d THEN CmpFrac(a.n, a.d, b.n * Pow10(-k), b.d)
                               ELSE CmpFrac(a.n, a.d * Pow10(-k), b.n, b.d)

Cmp(a, b) ==
    IF Sign(a) # Sign(b) THEN (IF Sign(a) < Sign(b) THEN -1 ELSE 1)
    ELSE IF Sign(a) = 0 THEN 0
    ELSE IF Sign(a) > 0 THEN CmpPos(a, b)
    ELSE CmpPos(Neg(b), Neg(a))

Lt(a, b) == Cmp(a, b) < 0

Gt(a, b) == Cmp(a, b) > 0

Le(a, b) == Cmp(a, b) <= 0

Ge(a, b) == Cmp(a, b) >= 0

\* <<floor(n * 10^k / d), n * 10^k mod d>> for naturals n, k and d > 0, digit by digit
RECURSIVE LongDiv(_, _, _)
LongDiv(n, d, k) ==
    IF k = 0 THEN <<n \div d, n % d>>
    ELSE LET p == LongDiv(n, d, k - 1)
         IN <<p[1] * 10 + (p[2] * 10) \div d, (p[2] * 10) % d>>

\* for a >= 0: [q |-> floor(a), half |-> the sign of (a - floor(a)) - 1/2]
Split(a) ==
    IF a.n = 0 \/ MagHi(a) <= -1 THEN [q |-> 0, half |-> -1]
    ELSE IF a.e >= 0
         THEN LET p == LongDiv(a.n, a.d, a.e)
              IN [q |-> p[1], half |-> CmpFrac(p[2], a.d, 1, 2)]
         ELSE LET m == a.d * Pow10(-a.e)
              IN [q |-> a.n \div m, half |-> CmpFrac(a.n % m, m, 1, 2)]

\* int(a): truncation toward zero
Trunc(a) == IF a.n < 0 THEN -Split(Neg(a)).q ELSE Split(a).q

\* the nearest integer to a value split as above, a tie going to the even one
Nearest(s) == IF s.half > 0 \/ (s.half = 0 /\ s.q % 2 = 1) THEN s.q + 1 ELSE s.q

\* round(a, p) for a >= 0: the nearest multiple of 10^-p, a tie going to the even one
RoundPos(a, p) == Dec(Nearest(Split(Mul(a, Dec(1, p)))), -p)

\* round(a, p)
Round(a, p) == IF Raised(a) THEN ZeroDivisionError ELSE IF a.n < 0 THEN Neg(RoundPos(Neg(a), p)) ELSE RoundPos(a, p)

(***************************************************************************)
(* Python dict access: d.get(key, default)                                 *)
(***************************************************************************)
Get(dict, key, default) == IF key \in DOMAIN dict THEN dict[key] ELSE default

(***************************************************************************)
(* services/mfu_calculator.py: MFUCalculator                               *)
(***************************************************************************)
PRECISION_SIZE == [fp16 |-> 2, bf16 |-> 2, fp32 |-> 4]

\* variant: one fixed field whatever the precision
_get_peak_flops_fixed_field(hw, precision) == hw.fp16_peak_tflops

\* variant: bf16 as an alias of fp16 for the peak field as well
_get_peak_flops_bf16_as_fp16(hw, precision) ==
    LET precision_map == [fp16 |-> hw.fp16_peak_tflops,
                          bf16 |-> hw.fp16_peak_tflops,
                          fp32 |-> hw.fp32_peak_tflops]
    IN Get(precision_map, precision, hw.fp16_peak_tflops)

_get_peak_flops(hw, precision) ==
    LET precision_map == [fp16 |-> hw.fp16_peak_tflops,
                          bf16 |-> hw.bf32_peak_tflops,
                          fp32 |-> hw.fp32_peak_tflops]
    IN Get(precision_map, precision, hw.fp16_peak_tflops)

\* variant: the prefill count without the multiply-accumulate factor 2
_calculate_prefill_flops_unscaled(m, context_length) ==
    LET L == m.num_layers
        d == m.hidden_size
        n == m.vocab_size
        attention_flops == 4 * L * context_length * d * d
        mlp_flops == 3 * L * context_length * d * m.intermediate_size
        output_flops == L * context_length * d * n
    IN attention_flops + mlp_flops + output_flops

_calculate_prefill_flops(m, context_length) ==
    LET L == m.num_layers
        d == m.hidden_size
        n == m.vocab_size
        attention_flops == 4 * L * context_length * d * d
        mlp_flops == 3 * L * context_length * d * m.intermediate_size
        output_flops == L * context_length * d * n
        total_flops == attention_flops + mlp_flops + output_flops
    IN 2 * total_flops

\* variant: the decode count of one sequence, whatever the batch size
_calculate_decode_flops_per_sequence(m, generated_length, batch_size) ==
    LET L == m.num_layers
        d == m.hidden_size
        n == m.vocab_size
        per_token_flops == 4 * L * d * d + 3 * L * d * m.intermediate_size + L * d * n
    IN 2 * per_token_flops * generated_length

_calculate_decode_flops(m, generated_length, batch_size) ==
    LET L == m.num_layers
        d == m.hidden_size
        n == m.vocab_size
        attention_flops == 4 * L * d * d
        mlp_flops == 3 * L * d * m.intermediate_size
        output_flops == L * d * n
        per_token_flops == attention_flops + mlp_flops + output_flops
    IN 2 * per_token_flops * generated_length * batch_size

\* variant: the cache holds the key/value heads of grouped-query attention
_calculate_kv_cache_grouped(m, context_length, generated_length, batch_size, precision) ==
    LET precision_size == Get(PRECISION_SIZE, precision, 2)
        total_seq_len == context_length + generated_length
        kv_per_layer == 2 * m.num_key_value_heads * m.head_dim * total_seq_len * precision_size
        total_kv == m.num_layers * kv_per_layer
    IN total_kv * batch_size

_calculate_kv_cache(m, context_length, generated_length, batch_size, precision) ==
    LET precision_size == Get(PRECISION_SIZE, precision, 2)
        total_seq_len == context_length + generated_length
        kv_per_layer == 2 * m.num_attention_heads * m.head_dim * total_seq_len * precision_size
        total_kv == m.num_layers * kv_per_layer
    IN total_kv * batch_size

\* variant: every parameter takes two bytes, whatever the precision
_calculate_model_memory_half_width(m, precision) ==
    LET d == m.hidden_size
        L == m.num_layers
        n == m.vocab_size
        total_params == 4 * L * d * d + 3 * L * d * m.intermediate_size + 2 * n * d
    IN total_params * 2

_calculate_model_memory(m, precision) ==
    LET precision_size == Get(PRECISION_SIZE, precision, 2)
        d == m.hidden_size
        L == m.num_layers
        n == m.vocab_size
        attention_params == 4 * L * d * d
        mlp_params == 3 * L * d * m.intermediate_size
        embedding_params == 2 * n * d
        total_params == attention_params + mlp_params + embedding_params
    IN total_params * precision_size

\* variant: without the early return on a non-positive time
_calculate_required_bandwidth_unguarded(model_memory_bytes, kv_cache_bytes, total_time_ms, batch_size) ==
    Div(Div(F(model_memory_bytes + kv_cache_bytes), Dec(1, 12)), Div(total_time_ms, F(1000)))

_calculate_required_bandwidth(model_memory_bytes, kv_cache_bytes, total_time_ms, batch_size) ==
    LET total_bytes == model_memory_bytes + kv_cache_bytes
    IN IF Le(total_time_ms, Zero) THEN Zero
       ELSE LET total_tb == Div(F(total_bytes), Dec(1, 12))
                time_seconds == Div(total_time_ms, F(1000))
            IN Div(total_tb, time_seconds)

\* variant: the compute rule with its mfu comparison reversed
_determine_bottleneck_compute_reversed(mfu, bandwidth_utilization) ==
    IF Lt(mfu, F(70)) /\ Lt(bandwidth_utilization, F(40)) THEN "compute"
    ELSE IF Lt(mfu, F(30)) /\ Gt(bandwidth_utilization, F(70)) THEN "memory"
    ELSE "balanced"

\* variant: the compute rule with the advisor's threshold of 50
_determine_bottleneck_compute_over_half(mfu, bandwidth_utilization) ==
    IF Gt(mfu, F(50)) /\ Lt(bandwidth_utilization, F(40)) THEN "compute"
    ELSE IF Lt(mfu, F(30)) /\ Gt(bandwidth_utilization, F(70)) THEN "memory"
    ELSE "balanced"

\* variant: thresholds that include their boundary values
_determine_bottleneck_inclusive(mfu, bandwidth_utilization) ==
    IF Ge(mfu, F(70)) /\ Le(bandwidth_utilization, F(40)) THEN "compute"
    ELSE IF Le(mfu, F(30)) /\ Ge(bandwidth_utilization, F(70)) THEN "memory"
    ELSE "balanced"

_determine_bottleneck(mfu, bandwidth_utilization) ==
    IF Gt(mfu, F(70)) /\ Lt(bandwidth_utilization, F(40)) THEN "compute"
    ELSE IF Lt(mfu, F(30)) /\ Gt(bandwidth_utilization, F(70)) THEN "memory"
    ELSE "balanced"

\* calculate, step 4: total_time_ms
total_time_ms_of(inp) ==
    Add(inp.first_token_latency_ms, Mul(F(inp.generated_length), inp.tpot_ms))

\* calculate, step 4: actual_flops (TFLOPS)
actual_flops_of(total_flops, total_time_seconds, peak_flops) ==
    IF Le(total_time_seconds, Zero) THEN peak_flops
    ELSE Div(Div(F(total_flops), total_time_seconds), Dec(1, 12))

\* variant: without the peak_flops > 0 guard
mfu_of_unguarded(actual_flops, peak_flops) == Mul(Div(actual_flops, peak_flops), F(100))

\* calculate, step 5: mfu
mfu_of(actual_flops, peak_flops) ==
    IF Gt(peak_flops, Zero) THEN Mul(Div(actual_flops, peak_flops), F(100)) ELSE Zero

\* variant: without the memory_bandwidth_tbps > 0 guard
memory_bandwidth_utilization_of_unguarded(required_bandwidth, hw) ==
    Mul(Div(required_bandwidth, hw.memory_bandwidth_tbps), F(100))

\* calculate, step 6: memory_bandwidth_utilization
memory_bandwidth_utilization_of(required_bandwidth, hw) ==
    IF Gt(hw.memory_bandwidth_tbps, Zero)
    THEN Mul(Div(required_bandwidth, hw.memory_bandwidth_tbps), F(100))
    ELSE Zero

\* calculate, step 7: tokens_per_second
tokens_per_second_of(inp, total_time_seconds) ==
    IF Gt(total_time_seconds, Zero)
    THEN Div(F(inp.generated_length * inp.batch_size), total_time_seconds)
    ELSE Zero

\* the local values of MFUCalculator.calculate, before the rounding of the return
calculate_locals(hw, m, inp) ==
    LET peak_flops == _get_peak_flops(hw, inp.precision)
        prefill_flops == _calculate_prefill_flops(m, inp.context_length)
        decode_flops == _calculate_decode_flops(m, inp.generated_length, inp.batch_size)
        total_flops == prefill_flops + decode_flops
        total_time_ms == total_time_ms_of(inp)
        total_time_seconds == Div(total_time_ms, Dec(1000, 0))
        actual_flops == actual_flops_of(total_flops, total_time_seconds, peak_flops)
        mfu == mfu_of(actual_flops, peak_flops)
        kv_cache_bytes == _calculate_kv_cache(m, inp.context_length, inp.generated_length,
                                              inp.batch_size, inp.precision)
        model_memory_bytes == _calculate_model_memory(m, inp.precision)
        required_bandwidth == _calculate_required_bandwidth(
                                  model_memory_bytes, kv_cache_bytes, total_time_ms,
                                  inp.batch_size)
        memory_bandwidth_utilization == memory_bandwidth_utilization_of(required_bandwidth, hw)
        tokens_per_second == tokens_per_second_of(inp, total_time_seconds)
        bottleneck_type == _determine_bottleneck(mfu, memory_bandwidth_utilization)
    IN [mfu |-> mfu,
        memory_bandwidth_utilization |-> memory_bandwidth_utilization,
        total_flops |-> total_flops,
        actual_flops |-> actual_flops,
        peak_flops |-> peak_flops,
        prefill_flops |-> prefill_flops,
        decode_flops |-> decode_flops,
        kv_cache_bytes |-> kv_cache_bytes,
        model_memory_bytes |-> model_memory_bytes,
        required_bandwidth |-> required_bandwidth,
        bottleneck_type |-> bottleneck_type,
        tokens_per_second |-> tokens_per_second,
        total_time_ms |-> total_time_ms]

\* MFUCalculator.calculate, step 9: the CalculationOutput returned for the
\* local values v, or the exception that one of the statements raised
CalculationOutput(v) ==
    IF \E k \in {"mfu", "memory_bandwidth_utilization", "actual_flops",
                 "required_bandwidth", "tokens_per_second", "total_time_ms"} :
          Raised(v[k])
    THEN [raised |-> "ZeroDivisionError"]
    ELSE [mfu |-> Round(v.mfu, 2),
          memory_bandwidth_utilization |-> Round(v.memory_bandwidth_utilization, 2),
          theoretical_flops |-> Round(Div(F(v.total_flops), Dec(1, 12)), 2),
          actual_flops |-> Round(v.actual_flops, 2),
          peak_flops |-> Round(v.peak_flops, 2),
          prefill_flops |-> Trunc(Round(F(v.prefill_flops), 0)),
          decode_flops |-> Trunc(Round(F(v.decode_flops), 0)),
          kv_cache_bytes |-> Trunc(Round(F(v.kv_cache_bytes), 0)),
          model_memory_bytes |-> Trunc(Round(F(v.model_memory_bytes), 0)),
          bottleneck_type |-> v.bottleneck_type,
          tokens_per_second |-> Round(v.tokens_per_second, 2),
          total_time_ms |-> Round(v.total_time_ms, 2)]

\* MFUCalculator.calculate
calculate(hw, m, inp) == CalculationOutput(calculate_locals(hw, m, inp))

\* module-level calculate_mfu(hardware, model, input_data): dicts in, dict out.
\* Only the keys read below reach the calculator; any other key of input_data
\* (gpu_count, attention_precision, ffn_precision) is never read.
calculate_mfu(hw, m, inp) ==
    LET hw_info == [fp16_peak_tflops |-> Get(hw, "fp16_peak_tflops", Zero),
                    bf32_peak_tflops |-> Get(hw, "bf32_peak_tflops", Zero),
                    fp32_peak_tflops |-> Get(hw, "fp32_peak_tflops", Zero),
                    memory_size_gb |-> Get(hw, "memory_size_gb", Zero),
                    memory_bandwidth_tbps |-> Get(hw, "memory_bandwidth_tbps", Zero)]
        model_info == [params_billions |-> Get(m, "params_billions", Zero),
                       num_layers |-> Get(m, "num_layers", 0),
                       hidden_size |-> Get(m, "hidden_size", 0),
                       num_attention_heads |-> Get(m, "num_attention_heads", 0),
                       num_key_value_heads |-> Get(m, "num_key_value_heads", 0),
                       vocab_size |-> Get(m, "vocab_size", 0),
                       intermediate_size |-> Get(m, "intermediate_size", 0),
                       head_dim |-> Get(m, "head_dim", 0),
                       max_position_embeddings |-> Get(m, "max_position_embeddings", 0)]
        calc_input == [precision |-> Get(inp, "precision", "fp16"),
                       first_token_latency_ms |-> Get(inp, "first_token_latency_ms", Zero),
                       tpot_ms |-> Get(inp, "tpot_ms", Zero),
                       context_length |-> Get(inp, "context_length", 0),
                       generated_length |-> Get(inp, "generated_length", 0),
                       batch_size |-> Get(inp, "batch_size", 1)]
    IN calculate(hw_info, model_info, calc_input)

(***************************************************************************)
(* Inputs of the estimator runs                                            *)
(***************************************************************************)
MaxLayers == 2
MaxGenerated == 2
MaxBatch == 2

HW(fp16, bf32, fp32, mem, bw) ==
    [fp16_peak_tflops |-> fp16, bf32_peak_tflops |-> bf32, fp32_peak_tflops |-> fp32,
     memory_size_gb |-> mem, memory_bandwidth_tbps |-> bw]

\* the A100 80GB figures of tests/conftest.py
A100_80GB == HW(F(1248), F(624), F(312), F(80), Dec(2039, -3))

EstimatorHardware ==
    { A100_80GB,
      \* three peak figures that differ in the third decimal; no bandwidth figure
      HW(Dec(100001, -3), Dec(100002, -3), Dec(100003, -3), F(80), Zero),
      \* a device whose peak is of the order of the small workloads below
      HW(Dec(99995, -13), Dec(1, -8), Dec(5, -9), F(80), Dec(2039, -3)),
      \* A100 compute with a memory system of the order of the small workloads
      HW(F(1248), F(624), F(312), F(80), Dec(25, -10)),
      \* no peak figures at all ("unknown"), slow memory
      HW(Zero, Zero, Zero, Zero, Dec(25, -10)) }

EstimatorModels ==
    { [params_billions |-> Zero, num_layers |-> L, hidden_size |-> 2,
       num_attention_heads |-> h, num_key_value_heads |-> 1, vocab_size |-> 3,
       intermediate_size |-> 2, head_dim |-> 2, max_position_embeddings |-> 8]
      : L \in 0..MaxLayers, h \in {1, 2} }

Precisions == {"fp16", "bf16", "fp32"}

GpuCounts == {1, 2, 8}

\* workloads; the latencies include 0 and a negative value, which the calculator
\* itself accepts (only the HTTP schema rejects them)
EstimatorInputs ==
    LET base == [precision : Precisions,
                 first_token_latency_ms : {Dec(-20, 0), Zero, Dec(48, 0)},
                 tpot_ms : {Zero, Dec(10, 0)},
                 context_length : {1, 5},
                 generated_length : 0..MaxGenerated,
                 batch_size : 1..MaxBatch]
    IN base \cup { [k \in DOMAIN b \cup {"gpu_count"} |->
                       IF k = "gpu_count" THEN g ELSE b[k]] : b \in base, g \in GpuCounts }

(***************************************************************************)
(* Estimator run: one call of calculate_mfu(hardware, model, input_data)   *)
(***************************************************************************)
EstimatorInit ==
    /\ pc = "ready"
    /\ hardware \in EstimatorHardware
    /\ model \in EstimatorModels
    /\ input_data \in EstimatorInputs
    /\ result = NoValue
    /\ hardware_table = <<>> /\ model_table = <<>>
    /\ calculation_history = <<>> /\ concurrency_history = <<>> /\ response = None

CalculateMfu ==
    /\ pc = "ready"
    /\ result' = calculate_mfu(hardware, model, input_data)
    /\ pc' = "done"
    /\ UNCHANGED <<hardware, model, input_data, service_vars>>

EstimatorNext == CalculateMfu

Spec == EstimatorInit /\ [][EstimatorNext]_vars

(***************************************************************************)
(* Properties of the estimator run                                         *)
(***************************************************************************)
\* the call has returned a value (it did not raise)
Returned == pc = "done" /\ "raised" \notin DOMAIN result

\* input_data with its gpu_count key set to g
WithGpuCount(inp, g) ==
    [k \in DOMAIN inp \cup {"gpu_count"} |-> IF k = "gpu_count" THEN g ELSE inp[k]]

\* input_data with its precision key set to p
WithPrecision(inp, p) == [inp EXCEPT !.precision = p]

\* the workload's total time in ms, from the inputs
InputTimeMs == Add(input_data.first_token_latency_ms,
                   Mul(F(input_data.generated_length), input_data.tpot_ms))

\* C1: the peak_flops reported for gpu_count = N is N times the peak_flops
\* reported for gpu_count = 1, an absent gpu_count counting as 1.
C1_PeakScalesWithGpuCount ==
    pc = "done" =>
        LET N == Get(input_data, "gpu_count", 1)
            single == calculate_mfu(hardware, model, WithGpuCount(input_data, 1))
        IN result.peak_flops = Mul(F(N), single.peak_flops)

\* C2: for a workload that uses some bandwidth on one device, the bandwidth
\* utilization reported for gpu_count = 8 is strictly lower than the one
\* reported for gpu_count = 1.
C2_UtilizationLowerOnEightDevices ==
    (pc = "done" /\ Get(input_data, "gpu_count", 1) = 8) =>
        LET single == calculate_mfu(hardware, model, WithGpuCount(input_data, 1))
        IN Gt(single.memory_bandwidth_utilization, Zero) =>
               Lt(result.memory_bandwidth_utilization, single.memory_bandwidth_utilization)

\* the hardware field the precision names
MatchingField(hw, precision) ==
    CASE precision = "fp16" -> hw.fp16_peak_tflops
      [] precision = "bf16" -> hw.bf32_peak_tflops
      [] precision = "fp32" -> hw.fp32_peak_tflops

\* C4 as stated: the precision selects its matching field, and the reported
\* peak_flops differs between two precisions whenever their fields differ.
C4_PeakDiffersWheneverFieldsDiffer ==
    Returned =>
        \A p \in Precisions :
            MatchingField(hardware, p) # MatchingField(hardware, input_data.precision)
            => calculate_mfu(hardware, model, WithPrecision(input_data, p)).peak_flops
                   # result.peak_flops

\* C4: the precision selects its matching field (fp16 -> fp16_peak_tflops,
\* bf16 -> bf32_peak_tflops, fp32 -> fp32_peak_tflops), reported rounded to
\* two decimals; the reported peak_flops differs between two precisions
\* whenever their fields differ after that rounding.
C4_PeakIsMatchingFieldRounded ==
    Returned =>
        /\ result.peak_flops = Round(MatchingField(hardware, input_data.precision), 2)
        /\ \A p \in Precisions :
               Round(MatchingField(hardware, p), 2)
                   # Round(MatchingField(hardware, input_data.precision), 2)
               => calculate_mfu(hardware, model, WithPrecision(input_data, p)).peak_flops
                      # result.peak_flops

C4_Witness ==
    /\ Returned
    /\ hardware = A100_80GB
    /\ input_data.precision = "fp32"
    /\ result.peak_flops = F(312)
    /\ calculate_mfu(hardware, model, WithPrecision(input_data, "fp16")).peak_flops = F(1248)

\* C5 as stated: fp16 and bf16 have byte-width 2 and the peak FLOPS selected
\* for bf16 equals the one selected for fp16.
C5_Bf16PeakEqualsFp16Peak ==
    (Returned /\ input_data.precision = "bf16") =>
        /\ PRECISION_SIZE["bf16"] = 2 /\ PRECISION_SIZE["fp16"] = 2
        /\ result.peak_flops
               = calculate_mfu(hardware, model, WithPrecision(input_data, "fp16")).peak_flops

\* C5: fp16 and bf16 have byte-width 2, so a bf16 run reports the memory
\* figures of the fp16 run; bf16 consumes the bf32_peak_tflops field, so its
\* reported peak equals the fp16 run's exactly when the bf32_peak_tflops and
\* fp16_peak_tflops fields agree to two decimals.
C5_Bf16SharesWidthNotPeakField ==
    (Returned /\ input_data.precision = "bf16") =>
        LET half == calculate_mfu(hardware, model, WithPrecision(input_data, "fp16"))
        IN /\ PRECISION_SIZE["bf16"] = 2 /\ PRECISION_SIZE["fp16"] = 2
           /\ result.kv_cache_bytes = half.kv_cache_bytes
           /\ result.model_memory_bytes = half.model_memory_bytes
           /\ result.peak_flops = Round(hardware.bf32_peak_tflops, 2)
           /\ (result.peak_flops = half.peak_flops
               <=> Round(hardware.bf32_peak_tflops, 2) = Round(hardware.fp16_peak_tflops, 2))

C5_Witness ==
    /\ Returned
    /\ input_data.precision = "bf16"
    /\ hardware = A100_80GB
    /\ result.peak_flops = F(624)
    /\ result.kv_cache_bytes > 0

\* C7: when the total elapsed time (first_token_latency_ms + generated_length
\* * tpot_ms) is non-positive, calculate raises no error, actual FLOPS is the
\* peak FLOPS, required bandwidth and bandwidth utilization are 0, and
\* tokens_per_second is 0.
C7_NonPositiveTime ==
    (pc = "done" /\ Le(InputTimeMs, Zero)) =>
        /\ "raised" \notin DOMAIN result
        /\ result.actual_flops = result.peak_flops
        /\ calculate_locals(hardware, model, input_data).required_bandwidth = Zero
        /\ result.memory_bandwidth_utilization = Zero
        /\ result.tokens_per_second = Zero

C7_Witness ==
    /\ Returned
    /\ Lt(InputTimeMs, Zero)
    /\ result.prefill_flops > 0
    /\ result.model_memory_bytes > 0
    /\ Gt(hardware.memory_bandwidth_tbps, Zero)
    /\ Gt(result.peak_flops, Zero)
    /\ result.actual_flops = result.peak_flops
    /\ input_data.generated_length > 0

\* C8: when the selected peak FLOPS is 0, calculate reports mfu = 0 and does
\* not raise, whatever the model and workload, a workload of non-positive
\* elapsed time included.
C8_ZeroPeak ==
    (pc = "done" /\ MatchingField(hardware, input_data.precision) = Zero) =>
        /\ "raised" \notin DOMAIN result
        /\ result.mfu = Zero

C8_Witness ==
    /\ Returned
    /\ MatchingField(hardware, input_data.precision) = Zero
    /\ Le(InputTimeMs, Zero)
    /\ result.prefill_flops > 0
    /\ result.mfu = Zero

\* C9: when the hardware's memory_bandwidth_tbps is 0, calculate reports
\* memory_bandwidth_utilization = 0 and does not raise, and the result is
\* never classified "memory".
C9_ZeroBandwidth ==
    (pc = "done" /\ hardware.memory_bandwidth_tbps = Zero) =>
        /\ "raised" \notin DOMAIN result
        /\ result.memory_bandwidth_utilization = Zero
        /\ result.bottleneck_type # "memory"

C9_Witness ==
    /\ Returned
    /\ hardware.memory_bandwidth_tbps = Zero
    /\ Gt(calculate_locals(hardware, model, input_data).required_bandwidth, Zero)
    /\ Lt(result.mfu, F(30))
    /\ result.bottleneck_type = "balanced"

\* input_data with its batch_size key set to b
WithBatchSize(inp, b) == [inp EXCEPT !.batch_size = b]

\* C18: decode_flops is linear in batch_size: the decode_flops reported for
\* batch_size = k is k times the one reported for batch_size = 1 with the
\* same model and generated_length, and it is 0 when generated_length is 0.
C18_DecodeLinearInBatch ==
    Returned =>
        /\ result.decode_flops
               = input_data.batch_size
                   * calculate_mfu(hardware, model, WithBatchSize(input_data, 1)).decode_flops
        /\ input_data.generated_length = 0 => result.decode_flops = 0

C18_Witness ==
    /\ Returned
    /\ input_data.batch_size = 2
    /\ input_data.generated_length = 2
    /\ model.num_layers = 2
    /\ result.decode_flops > 0
    /\ result.decode_flops
           = 2 * calculate_mfu(hardware, model, WithBatchSize(input_data, 1)).decode_flops

\* C19: model_memory_bytes for fp32 is exactly twice the one for fp16 and for
\* bf16 with the same model, and model_memory_bytes is the same for every
\* batch size, context length and generated length.
C19_ModelMemoryByPrecisionOnly ==
    Returned =>
        LET bytes(p) == calculate_locals(hardware, model,
                                         WithPrecision(input_data, p)).model_memory_bytes
        IN /\ bytes("fp32") = 2 * bytes("fp16")
           /\ bytes("fp32") = 2 * bytes("bf16")
           /\ result.model_memory_bytes = bytes(input_data.precision)
           /\ \A b \in 1..MaxBatch, c \in {1, 5}, g \in 0..MaxGenerated :
                  calculate_locals(hardware, model,
                                   [input_data EXCEPT !.batch_size = b,
                                                      !.context_length = c,
                                                      !.generated_length = g]
                                  ).model_memory_bytes = result.model_memory_bytes

C19_Witness ==
    /\ Returned
    /\ input_data.precision = "fp32"
    /\ input_data.batch_size = 2
    /\ input_data.context_length = 5
    /\ input_data.generated_length = 2
    /\ result.model_memory_bytes > 0
    /\ result.model_memory_bytes
           = 2 * calculate_mfu(hardware, model,
                               WithPrecision(input_data, "fp16")).model_memory_bytes

\* the model's per-token cost 4*L*d*d + 3*L*d*i + L*d*n
PerTokenCost(m) ==
    4 * m.num_layers * m.hidden_size * m.hidden_size
    + 3 * m.num_layers * m.hidden_size * m.intermediate_size
    + m.num_layers * m.hidden_size * m.vocab_size

\* C20: for a model of positive per-token cost, prefill_flops > decode_flops
\* exactly when context_length > generated_length * batch_size and
\* decode_flops > prefill_flops exactly when generated_length * batch_size >
\* context_length; context 512 / generated 2048 gives decode > prefill and
\* context 8192 / generated 32 gives prefill > decode.
C20_PrefillDecodeOrder ==
    (Returned /\ PerTokenCost(model) > 0) =>
        LET decoded == input_data.generated_length * input_data.batch_size
        IN /\ (result.prefill_flops > result.decode_flops)
                  <=> (input_data.context_length > decoded)
           /\ (result.decode_flops > result.prefill_flops)
                  <=> (decoded > input_data.context_length)
           /\ _calculate_decode_flops(model, 2048, 1) > _calculate_prefill_flops(model, 512)
           /\ _calculate_prefill_flops(model, 8192) > _calculate_decode_flops(model, 32, 1)

C20_Witness ==
    /\ Returned
    /\ PerTokenCost(model) > 0
    /\ input_data.context_length = 5
    /\ input_data.generated_length = 2
    /\ input_data.batch_size = 2
    /\ result.prefill_flops > result.decode_flops

(***************************************************************************)
(* Classifier run: one call of _determine_bottleneck(mfu, bandwidth)       *)
(***************************************************************************)
\* percentages in hundredths of a percent, on and around the four thresholds
BottleneckGrid == {0, 2999, 3000, 3001, 3999, 4000, 4001, 6999, 7000, 7001, 9999, 14000}

BottleneckInit ==
    /\ pc = "ready"
    /\ hardware = NoValue
    /\ model = NoValue
    /\ input_data \in [mfu : BottleneckGrid, bandwidth_utilization : BottleneckGrid]
    /\ result = NoValue
    /\ hardware_table = <<>> /\ model_table = <<>>
    /\ calculation_history = <<>> /\ concurrency_history = <<>> /\ response = None

DetermineBottleneck ==
    /\ pc = "ready"
    /\ result' = _determine_bottleneck(Dec(input_data.mfu, -2),
                                       Dec(input_data.bandwidth_utilization, -2))
    /\ pc' = "done"
    /\ UNCHANGED <<hardware, model, input_data, service_vars>>

BottleneckNext == DetermineBottleneck

SpecBottleneck == BottleneckInit /\ [][BottleneckNext]_vars

GiB == 1073741824

precision_size_of(precision) == Get([fp16 |-> 2, bf16 |-> 2, fp32 |-> 4], precision, 2)

weight_memory_gb_of(m, precision_size) ==
    Div(Mul(Mul(m.params_billions, Dec(1, 9)), F(precision_size)), F(GiB))

kv_cache_memory_gb_of(m, context_length, precision_size) ==
    Div(F(2 * m.num_layers * m.num_attention_heads * m.head_dim
            * context_length * precision_size),
        F(GiB))

activation_memory_gb_of(m, context_length, precision_size) ==
    Div(F(2 * m.num_layers * context_length * m.hidden_size * precision_size), F(GiB))

total_per_request_of(weight_memory_gb, framework_overhead_gb, kv_cache_memory_gb, activation_memory_gb) ==
    Add(Add(Add(weight_memory_gb, framework_overhead_gb), kv_cache_memory_gb),
        activation_memory_gb)

paged_attention_factor == Dec(23, -1)

\* variant: the paged factor enlarges the KV cache instead of shrinking it
memory_with_pa_of_inverted(weight_memory_gb, framework_overhead_gb, kv_cache_memory_gb, activation_memory_gb) ==
    Add(Add(Add(weight_memory_gb, framework_overhead_gb),
            Mul(kv_cache_memory_gb, paged_attention_factor)),
        activation_memory_gb)

memory_with_pa_of(weight_memory_gb, framework_overhead_gb, kv_cache_memory_gb, activation_memory_gb) ==
    Add(Add(Add(weight_memory_gb, framework_overhead_gb),
            Div(kv_cache_memory_gb, paged_attention_factor)),
        activation_memory_gb)

\* variant: the count is not floored at 0
max_concurrency_of_unfloored(available_memory_gb, per_request) ==
    Trunc(Div(available_memory_gb, per_request))

\* variant: the device count does not reach the total memory
total_memory_gb_of_single(hw, gpu_count) == hw.memory_size_gb

\* total_memory_gb = hardware["memory_size_gb"] * gpu_count
total_memory_gb_of(hw, gpu_count) == Mul(hw.memory_size_gb, F(gpu_count))

\* variant: the framework overhead is paid on every device
available_memory_gb_of_per_device(total_memory_gb, framework_overhead_gb, gpu_count) ==
    Sub(total_memory_gb, Mul(framework_overhead_gb, F(gpu_count)))

\* available_memory_gb = total_memory_gb - framework_overhead_gb
available_memory_gb_of(total_memory_gb, framework_overhead_gb, gpu_count) ==
    Sub(total_memory_gb, framework_overhead_gb)

\* max(0, int(available_memory_gb / per_request)), for a quotient that exists
max_concurrency_of(available_memory_gb, per_request) ==
    Max(0, Trunc(Div(available_memory_gb, per_request)))

calculate_concurrency_logic(hw, m, gpu_count, context_length, precision, framework_overhead_gb) ==
    LET precision_size == precision_size_of(precision)
        weight_memory_gb == weight_memory_gb_of(m, precision_size)
        kv_cache_memory_gb == kv_cache_memory_gb_of(m, context_length, precision_size)
        activation_memory_gb == activation_memory_gb_of(m, context_length, precision_size)
        total_per_request == total_per_request_of(weight_memory_gb, framework_overhead_gb,
                                                  kv_cache_memory_gb, activation_memory_gb)
        total_memory_gb == total_memory_gb_of(hw, gpu_count)
        available_memory_gb == available_memory_gb_of(total_memory_gb, framework_overhead_gb,
                                                      gpu_count)
        memory_with_pa == memory_with_pa_of(weight_memory_gb, framework_overhead_gb,
                                            kv_cache_memory_gb, activation_memory_gb)
    IN IF Raised(Div(available_memory_gb, total_per_request))
          \/ Raised(Div(available_memory_gb, memory_with_pa))
       THEN [raised |-> "ZeroDivisionError"]
       ELSE [gpu_count |-> gpu_count,
             max_concurrency_without_pa |->
                 max_concurrency_of(available_memory_gb, total_per_request),
             max_concurrency_with_pa |->
                 max_concurrency_of(available_memory_gb, memory_with_pa),
             memory_breakdown |->
                 [weight_memory_gb |-> Round(weight_memory_gb, 4),
                  framework_overhead_gb |-> Round(framework_overhead_gb, 4),
                  kv_cache_memory_gb |-> Round(kv_cache_memory_gb, 4),
                  activation_memory_gb |-> Round(activation_memory_gb, 4),
                  total_memory_gb |-> Round(total_per_request, 4)],
             hardware_memory_gb |-> Round(total_memory_gb, 4),
             available_memory_gb |-> Round(available_memory_gb, 4)]

(***************************************************************************)
(* Concurrency run: one call of calculate_concurrency_logic                *)
(***************************************************************************)
ConcurrencyHardware ==
    { A100_80GB,
      HW(F(330), F(165), F(83), F(24), Dec(1008, -3)),
      HW(Zero, Zero, Zero, Zero, Zero) }

\* 0.268435456 billion parameters are 2^28 parameters: 0.5 GiB of fp16 weights
ConcurrencyModels ==
    { [params_billions |-> pb, num_layers |-> L, hidden_size |-> 4096,
       num_attention_heads |-> 32, num_key_value_heads |-> kvh, vocab_size |-> 32000,
       intermediate_size |-> 11008, head_dim |-> 128, max_position_embeddings |-> 4096]
      : pb \in {Zero, Dec(268435456, -9)}, L \in {0, 32}, kvh \in {8, 32} }

ConcurrencyInputs ==
    [gpu_count : GpuCounts,
     context_length : {512, 1024},
     precision : Precisions,
     framework_overhead_gb : {Zero, F(2), F(100)}]

ConcurrencyInit ==
    /\ pc = "ready"
    /\ hardware \in ConcurrencyHardware
    /\ model \in ConcurrencyModels
    /\ input_data \in ConcurrencyInputs
    /\ result = NoValue
    /\ hardware_table = <<>> /\ model_table = <<>>
    /\ calculation_history = <<>> /\ concurrency_history = <<>> /\ response = None

CalculateConcurrencyLogic ==
    /\ pc = "ready"
    /\ result' = calculate_concurrency_logic(hardware, model, input_data.gpu_count,
                                             input_data.context_length,
                                             input_data.precision,
                                             input_data.framework_overhead_gb)
    /\ pc' = "done"
    /\ UNCHANGED <<hardware, model, input_data, service_vars>>

ConcurrencyNext == CalculateConcurrencyLogic

SpecConcurrency == ConcurrencyInit /\ [][ConcurrencyNext]_vars

\* the per-request memory and the available memory of the run, from its inputs
InputPerRequestGb ==
    LET ps == IF input_data.precision = "fp32" THEN 4 ELSE 2
    IN total_per_request_of(weight_memory_gb_of(model, ps),
                            input_data.framework_overhead_gb,
                            kv_cache_memory_gb_of(model, input_data.context_length, ps),
                            activation_memory_gb_of(model, input_data.context_length, ps))

InputAvailableGb ==
    Sub(Mul(hardware.memory_size_gb, F(input_data.gpu_count)),
        input_data.framework_overhead_gb)

\* C10: for every input whose per-request memory is positive, the available
\* memory being positive, zero or negative, the call returns and
\* max_concurrency_with_pa >= max_concurrency_without_pa.
C10_PagedAttentionNeverHurts ==
    (pc = "done" /\ Gt(InputPerRequestGb, Zero)) =>
        /\ "raised" \notin DOMAIN result
        /\ result.max_concurrency_with_pa >= result.max_concurrency_without_pa

C10_Witness ==
    /\ Returned
    /\ Gt(InputPerRequestGb, Zero)
    /\ Lt(InputAvailableGb, Zero)
    /\ model.num_layers > 0
    /\ result.max_concurrency_with_pa = 0
    /\ result.max_concurrency_without_pa = 0

\* the memory one request takes with paged attention, from the inputs
InputPerRequestPagedGb ==
    LET ps == IF input_data.precision = "fp32" THEN 4 ELSE 2
    IN Add(Add(Add(weight_memory_gb_of(model, ps), input_data.framework_overhead_gb),
               Div(kv_cache_memory_gb_of(model, input_data.context_length, ps),
                   Dec(23, -1))),
           activation_memory_gb_of(model, input_data.context_length, ps))

\* q is floor(a / b) for b > 0: q * b <= a < (q + 1) * b
IsFloorOfQuotient(q, a, b) == Le(Mul(F(q), b), a) /\ Lt(a, Mul(F(q + 1), b))

\* C11: the two counts returned by calculate_concurrency_logic are never
\* negative: with available memory < 0 both are 0, and otherwise each is
\* floor(available memory / per-request memory) for its per-request memory.
C11_CountsFlooredAtZero ==
    (pc = "done" /\ Gt(InputPerRequestGb, Zero)) =>
        /\ "raised" \notin DOMAIN result
        /\ result.max_concurrency_without_pa >= 0
        /\ result.max_concurrency_with_pa >= 0
        /\ Lt(InputAvailableGb, Zero) =>
               /\ result.max_concurrency_without_pa = 0
               /\ result.max_concurrency_with_pa = 0
        /\ Ge(InputAvailableGb, Zero) =>
               /\ IsFloorOfQuotient(result.max_concurrency_without_pa,
                                    InputAvailableGb, InputPerRequestGb)
               /\ IsFloorOfQuotient(result.max_concurrency_with_pa,
                                    InputAvailableGb, InputPerRequestPagedGb)

C11_Witness ==
    /\ Returned
    /\ Gt(InputPerRequestGb, Zero)
    /\ Trunc(Div(InputAvailableGb, InputPerRequestGb)) < 0
    /\ Trunc(Div(InputAvailableGb, InputPerRequestPagedGb)) < 0
    /\ result.max_concurrency_without_pa = 0
    /\ result.max_concurrency_with_pa = 0

\* C12: the total device memory is memory_size_gb * gpu_count and the
\* available memory is that total minus framework_overhead_gb, subtracted
\* once whatever the gpu_count (80 GB, overhead 2: 78 for 1 device, 638 for 8).
C12_OverheadSubtractedOnce ==
    Returned =>
        /\ result.hardware_memory_gb
               = Round(Mul(hardware.memory_size_gb, F(input_data.gpu_count)), 4)
        /\ result.available_memory_gb
               = Round(Sub(Mul(hardware.memory_size_gb, F(input_data.gpu_count)),
                           input_data.framework_overhead_gb), 4)
        /\ (hardware.memory_size_gb = F(80) /\ input_data.framework_overhead_gb = F(2)) =>
               /\ input_data.gpu_count = 1 => result.available_memory_gb = F(78)
               /\ input_data.gpu_count = 8 => result.available_memory_gb = F(638)

C12_Witness ==
    /\ Returned
    /\ hardware.memory_size_gb = F(80)
    /\ input_data.framework_overhead_gb = F(2)
    /\ input_data.gpu_count = 8
    /\ result.hardware_memory_gb = F(640)
    /\ result.available_memory_gb = F(638)

\* the count without paged attention that the same call gives for one device
SingleDeviceCount ==
    calculate_concurrency_logic(hardware, model, 1, input_data.context_length,
                                input_data.precision,
                                input_data.framework_overhead_gb).max_concurrency_without_pa

\* C13: for fixed hardware, model, context length, precision and overhead >= 0,
\* max_concurrency_without_pa for gpu_count = N is at least (N - 1) times the
\* value for gpu_count = 1.
C13_ConcurrencyScalesWithDevices ==
    Returned =>
        result.max_concurrency_without_pa >= (input_data.gpu_count - 1) * SingleDeviceCount

C13_Witness ==
    /\ Returned
    /\ input_data.gpu_count = 8
    /\ Gt(input_data.framework_overhead_gb, Zero)
    /\ SingleDeviceCount > 0
    /\ result.max_concurrency_without_pa > 8 * SingleDeviceCount

(***************************************************************************)
(* services/optimizer.py: OptimizationEngine                               *)
(* A suggestion is kept as its category and priority; its two texts are    *)
(* fixed strings that go with the category and the branch.                 *)
(***************************************************************************)
OptimizationSuggestion(category, priority) == [category |-> category, priority |-> priority]

\* "if x" for a dict argument: None and {} are both false
Truthy(d) == DOMAIN d # {}

\* variant: the mfu thresholds include their boundary values
_get_compute_bottleneck_suggestions_inclusive(mfu, hardware_info, model_info) ==
    (IF Le(mfu, F(30)) THEN <<OptimizationSuggestion("Hardware Upgrade", "high")>> ELSE <<>>)
    \o (IF Le(mfu, F(50))
        THEN <<OptimizationSuggestion("Precision Optimization", "high")>> ELSE <<>>)
    \o (IF Truthy(hardware_info) /\ Gt(Get(hardware_info, "fp16_peak_tflops", Zero), F(1000))
        THEN <<OptimizationSuggestion("Batch Optimization", "medium")>> ELSE <<>>)
    \o (IF Truthy(model_info) /\ Get(model_info, "num_layers", 0) > 50
        THEN <<OptimizationSuggestion("Model Optimization", "medium")>> ELSE <<>>)
    \o <<OptimizationSuggestion("System Config", "low")>>

_get_compute_bottleneck_suggestions(mfu, hardware_info, model_info) ==
    (IF Lt(mfu, F(30)) THEN <<OptimizationSuggestion("Hardware Upgrade", "high")>> ELSE <<>>)
    \o (IF Lt(mfu, F(50))
        THEN <<OptimizationSuggestion("Precision Optimization", "high")>> ELSE <<>>)
    \o (IF Truthy(hardware_info) /\ Gt(Get(hardware_info, "fp16_peak_tflops", Zero), F(1000))
        THEN <<OptimizationSuggestion("Batch Optimization", "medium")>> ELSE <<>>)
    \o (IF Truthy(model_info) /\ Get(model_info, "num_layers", 0) > 50
        THEN <<OptimizationSuggestion("Model Optimization", "medium")>> ELSE <<>>)
    \o <<OptimizationSuggestion("System Config", "low")>>

\* variant: the long-context rule is evaluated before the bandwidth rules
_get_memory_bottleneck_suggestions_context_first(bandwidth_utilization, hardware_info, model_info) ==
    (IF Truthy(model_info) /\ Get(model_info, "context_length", 0) > 8000
     THEN <<OptimizationSuggestion("Input Optimization", "medium")>> ELSE <<>>)
    \o (IF Gt(bandwidth_utilization, F(90))
        THEN <<OptimizationSuggestion("Batch Optimization", "high"),
               OptimizationSuggestion("Hardware Upgrade", "high")>>
        ELSE <<>>)
    \o (IF Gt(bandwidth_utilization, F(70))
        THEN <<OptimizationSuggestion("Model Optimization", "medium"),
               OptimizationSuggestion("Config Optimization", "medium")>>
        ELSE <<>>)
    \o <<OptimizationSuggestion("System Config", "low")>>

\* variant: the long-context suggestion follows the model's
\* max_position_embeddings instead of a context_length key
_get_memory_bottleneck_suggestions_by_position(bandwidth_utilization, hardware_info, model_info) ==
    (IF Gt(bandwidth_utilization, F(90))
     THEN <<OptimizationSuggestion("Batch Optimization", "high"),
            OptimizationSuggestion("Hardware Upgrade", "high")>>
     ELSE <<>>)
    \o (IF Gt(bandwidth_utilization, F(70))
        THEN <<OptimizationSuggestion("Model Optimization", "medium"),
               OptimizationSuggestion("Config Optimization", "medium")>>
        ELSE <<>>)
    \o (IF Truthy(model_info) /\ Get(model_info, "max_position_embeddings", 0) > 8000
        THEN <<OptimizationSuggestion("Input Optimization", "medium")>> ELSE <<>>)
    \o <<OptimizationSuggestion("System Config", "low")>>

_get_memory_bottleneck_suggestions(bandwidth_utilization, hardware_info, model_info) ==
    (IF Gt(bandwidth_utilization, F(90))
     THEN <<OptimizationSuggestion("Batch Optimization", "high"),
            OptimizationSuggestion("Hardware Upgrade", "high")>>
     ELSE <<>>)
    \o (IF Gt(bandwidth_utilization, F(70))
        THEN <<OptimizationSuggestion("Model Optimization", "medium"),
               OptimizationSuggestion("Config Optimization", "medium")>>
        ELSE <<>>)
    \o (IF Truthy(model_info) /\ Get(model_info, "context_length", 0) > 8000
        THEN <<OptimizationSuggestion("Input Optimization", "medium")>> ELSE <<>>)
    \o <<OptimizationSuggestion("System Config", "low")>>

\* variant: the balanced branch also advises a medium-priority change
_get_balanced_suggestions_with_medium ==
    <<OptimizationSuggestion("Status", "low"), OptimizationSuggestion("Monitoring", "low"),
      OptimizationSuggestion("Batch Optimization", "medium")>>

_get_balanced_suggestions ==
    <<OptimizationSuggestion("Status", "low"), OptimizationSuggestion("Monitoring", "low")>>

\* variant: no branch for a bottleneck type other than the three known ones
generate_suggestions_known_types_only(mfu, bandwidth_utilization, hardware_info, model_info, bottleneck_type) ==
    IF bottleneck_type = "compute"
    THEN _get_compute_bottleneck_suggestions(mfu, hardware_info, model_info)
    ELSE IF bottleneck_type = "memory"
    THEN _get_memory_bottleneck_suggestions(bandwidth_utilization, hardware_info, model_info)
    ELSE IF bottleneck_type = "balanced" THEN _get_balanced_suggestions
    ELSE <<>>

generate_suggestions(mfu, bandwidth_utilization, hardware_info, model_info, bottleneck_type) ==
    IF bottleneck_type = "compute"
    THEN _get_compute_bottleneck_suggestions(mfu, hardware_info, model_info)
    ELSE IF bottleneck_type = "memory"
    THEN _get_memory_bottleneck_suggestions(bandwidth_utilization, hardware_info, model_info)
    ELSE _get_balanced_suggestions

\* module-level get_optimization_suggestions: the same list, as dicts
get_optimization_suggestions(mfu, bandwidth_utilization, hardware_info, model_info, bottleneck_type) ==
    generate_suggestions(mfu, bandwidth_utilization, hardware_info, model_info,
                         bottleneck_type)

\* the model with its num_key_value_heads key set to k
WithKeyValueHeads(m, k) == [m EXCEPT !.num_key_value_heads = k]

C24_BottleneckAgreesWithReported ==
    Returned =>
        /\ result.bottleneck_type = "compute" =>
               /\ Gt(result.mfu, F(70))
               /\ Lt(result.memory_bandwidth_utilization, F(40))
        /\ result.bottleneck_type = "memory" =>
               /\ Lt(result.mfu, F(30))
               /\ Gt(result.memory_bandwidth_utilization, F(70))

\* C24 as amended: the classification is made on the values before rounding,
\* so a "compute" result has an unrounded mfu > 70 and bandwidth utilization
\* < 40 and reports mfu >= 70 and bandwidth utilization <= 40, and a "memory"
\* result has an unrounded mfu < 30 and bandwidth utilization > 70 and
\* reports mfu <= 30 and bandwidth utilization >= 70.
C24_BottleneckAgreesBeforeRounding ==
    Returned =>
        /\ result.bottleneck_type = "compute" =>
               /\ Gt(calculate_locals(hardware, model, input_data).mfu, F(70))
               /\ Lt(calculate_locals(hardware, model, input_data).memory_bandwidth_utilization,
                     F(40))
               /\ Ge(result.mfu, F(70))
               /\ Le(result.memory_bandwidth_utilization, F(40))
        /\ result.bottleneck_type = "memory" =>
               /\ Lt(calculate_locals(hardware, model, input_data).mfu, F(30))
               /\ Gt(calculate_locals(hardware, model, input_data).memory_bandwidth_utilization,
                     F(70))
               /\ Le(result.mfu, F(30))
               /\ Ge(result.memory_bandwidth_utilization, F(70))

\* a "compute" result that reports an mfu of exactly 70
C24_Witness ==
    /\ Returned
    /\ result.bottleneck_type = "compute"
    /\ result.mfu = F(70)
    /\ Gt(calculate_locals(hardware, model, input_data).mfu, F(70))

(***************************************************************************)
(* Advisor run: one call of get_optimization_suggestions                   *)
(***************************************************************************)
\* mfu values in hundredths of a percent, on and around 30 and 50
AdvisorMfuGrid == {0, 2999, 3000, 3001, 4999, 5000, 7001, 10000}

\* bandwidth utilizations in hundredths of a percent, on and around 70 and 90
AdvisorBandwidthGrid == {0, 3999, 7000, 7001, 9000, 9001, 10000}

\* the three bottleneck types and two values outside them
AdvisorBottleneckTypes == {"compute", "memory", "balanced", "unknown", ""}

\* hardware_info: absent, without the key read, and on both sides of 1000
AdvisorHardwareInfo ==
    { None,
      [memory_size_gb |-> F(80)],
      [fp16_peak_tflops |-> F(1000)],
      [fp16_peak_tflops |-> Dec(100001, -2)],
      A100_80GB }

\* model_info: absent, and with num_layers / context_length on both sides of
\* 50 / 8000; max_position_embeddings is the key model_to_dict provides
AdvisorModelInfo ==
    { None,
      [num_layers |-> 50, max_position_embeddings |-> 8192],
      [num_layers |-> 51, max_position_embeddings |-> 4096],
      [num_layers |-> 32, context_length |-> 8000],
      [num_layers |-> 80, context_length |-> 8001] }

AdvisorInit ==
    /\ pc = "ready"
    /\ hardware \in AdvisorHardwareInfo
    /\ model \in AdvisorModelInfo
    /\ input_data \in [mfu : AdvisorMfuGrid,
                       bandwidth_utilization : AdvisorBandwidthGrid,
                       bottleneck_type : AdvisorBottleneckTypes]
    /\ result = NoValue
    /\ hardware_table = <<>> /\ model_table = <<>>
    /\ calculation_history = <<>> /\ concurrency_history = <<>> /\ response = None

GetOptimizationSuggestions ==
    /\ pc = "ready"
    /\ result' = get_optimization_suggestions(
                     Dec(input_data.mfu, -2), Dec(input_data.bandwidth_utilization, -2),
                     hardware, model, input_data.bottleneck_type)
    /\ pc' = "done"
    /\ UNCHANGED <<hardware, model, input_data, service_vars>>

AdvisorNext == GetOptimizationSuggestions

SpecAdvisor == AdvisorInit /\ [][AdvisorNext]_vars

\* how many suggestions of the list carry the category and the priority
CountOf(suggestions, category, priority) ==
    Cardinality({i \in 1..Len(suggestions) :
                    suggestions[i].category = category /\ suggestions[i].priority = priority})

\* how many suggestions of the list carry the priority
CountPriority(suggestions, priority) ==
    Cardinality({i \in 1..Len(suggestions) : suggestions[i].priority = priority})

\* 1 when the condition holds, else 0
Indicator(condition) == IF condition THEN 1 ELSE 0

\* C14: generate_suggestions returns a non-empty list for every mfu,
\* bandwidth_utilization and bottleneck_type (values outside compute / memory /
\* balanced included) and every present or absent hardware_info / model_info,
\* and every priority is one of high, medium, low.
C14_AlwaysSomeSuggestion ==
    pc = "done" =>
        /\ Len(result) >= 1
        /\ \A i \in 1..Len(result) : result[i].priority \in {"high", "medium", "low"}

C14_Witness ==
    /\ pc = "done"
    /\ input_data.bottleneck_type = "unknown"
    /\ hardware = None
    /\ model = None
    /\ Len(result) = 2

\* C15: for bottleneck_type "balanced" the advisor returns exactly two
\* suggestions, both of priority low, whatever the other arguments.
C15_BalancedTwoLow ==
    (pc = "done" /\ input_data.bottleneck_type = "balanced") =>
        /\ Len(result) = 2
        /\ \A i \in 1..Len(result) : result[i].priority = "low"

C15_Witness ==
    /\ pc = "done"
    /\ input_data.bottleneck_type = "balanced"
    /\ input_data.mfu < 3000
    /\ input_data.bandwidth_utilization > 9000
    /\ hardware # None
    /\ model # None
    /\ CountPriority(result, "low") = 2

C17_MemoryBranch ==
    (pc = "done" /\ input_data.bottleneck_type = "memory") =>
        LET very_high == input_data.bandwidth_utilization > 9000
            high == input_data.bandwidth_utilization > 7000
            long == /\ model # None
                    /\ "context_length" \in DOMAIN model
                    /\ model.context_length > 8000
        IN /\ CountOf(result, "Batch Optimization", "high") = Indicator(very_high)
           /\ CountOf(result, "Hardware Upgrade", "high") = Indicator(very_high)
           /\ CountOf(result, "Model Optimization", "medium") = Indicator(high)
           /\ CountOf(result, "Config Optimization", "medium") = Indicator(high)
           /\ CountOf(result, "Input Optimization", "medium") = Indicator(long)
           /\ CountOf(result, "System Config", "low") = 1
           /\ CountPriority(result, "low") = 1
           /\ Len(result) = 2 * Indicator(very_high) + 2 * Indicator(high)
                                + Indicator(long) + 1

C17_Witness ==
    /\ pc = "done"
    /\ input_data.bottleneck_type = "memory"
    /\ input_data.bandwidth_utilization = 9001
    /\ model # None /\ "context_length" \in DOMAIN model /\ model.context_length = 8001
    /\ Len(result) = 6

\* high before medium before low
PriorityRank(priority) == IF priority = "high" THEN 3 ELSE IF priority = "medium" THEN 2 ELSE 1

\* C27: every list generate_suggestions returns is ordered by priority: no
\* medium suggestion precedes a high one, no low suggestion precedes a high
\* or medium one, and the last element is a low-priority suggestion.
C27_OrderedByPriority ==
    pc = "done" =>
        /\ \A i \in 1..Len(result) : \A j \in (i + 1)..Len(result) :
               PriorityRank(result[i].priority) >= PriorityRank(result[j].priority)
        /\ Len(result) >= 1
        /\ result[Len(result)].priority = "low"

C27_Witness ==
    /\ pc = "done"
    /\ input_data.bottleneck_type = "memory"
    /\ Len(result) = 6
    /\ result[1].priority = "high" /\ result[2].priority = "high"
    /\ result[3].priority = "medium" /\ result[5].priority = "medium"
    /\ result[5].category = "Input Optimization"
    /\ result[6].priority = "low"

(***************************************************************************)
(* The HTTP service: schemas.py, crud/, routers/hardware.py,               *)
(* routers/model.py, routers/calculator.py                                 *)
(***************************************************************************)
MaxRows == 2
MaxHistory == 2
\* the largest id the database hands out
MaxId == 3
\* the most rows of an imported spreadsheet
MaxImportRows == 2

\* an HTTP response: status code and JSON body
Response(status, body) == [status |-> status, body |-> body]

HTTPException(status_code, detail) == Response(status_code, [detail |-> detail])

\* FastAPI's answer to an exception no handler catches
InternalServerError == Response(500, [detail |-> "Internal Server Error"])

\* FastAPI's answer to a body its schema rejects
RequestValidationError == Response(422, [detail |-> "validation error"])

\* the id the database gives the next row of a table
NextId(table) ==
    IF Len(table) = 0 THEN 1
    ELSE 1 + (CHOOSE i \in {table[k].id : k \in 1..Len(table)} :
                 \A k \in 1..Len(table) : table[k].id <= i)

\* crud get_hardware / get_model: the row with the id, or None
GetById(table, id) ==
    IF \E k \in 1..Len(table) : table[k].id = id
    THEN table[CHOOSE k \in 1..Len(table) : table[k].id = id]
    ELSE None

\* what scalar_one_or_none() raises on more than one row
MultipleResultsFound == [raised |-> "MultipleResultsFound"]

\* crud get_hardware_by_name: the row with the name, None without one, and
\* MultipleResultsFound with several
get_hardware_by_name(table, name) ==
    IF \A k \in 1..Len(table) : table[k].name # name THEN None
    ELSE IF Cardinality({k \in 1..Len(table) : table[k].name = name}) > 1
    THEN MultipleResultsFound
    ELSE table[CHOOSE k \in 1..Len(table) : table[k].name = name]

\* crud get_model_by_hf_id, with scalar_one_or_none() as well
get_model_by_hf_id(table, hf_id) ==
    IF \A k \in 1..Len(table) : table[k].huggingface_id # hf_id THEN None
    ELSE IF Cardinality({k \in 1..Len(table) : table[k].huggingface_id = hf_id}) > 1
    THEN MultipleResultsFound
    ELSE table[CHOOSE k \in 1..Len(table) : table[k].huggingface_id = hf_id]

HardwareFigures ==
    {"fp16_peak_tflops", "bf32_peak_tflops", "fp32_peak_tflops", "memory_size_gb",
     "memory_bandwidth_tbps"}

ModelFigures ==
    {"num_layers", "hidden_size", "num_attention_heads", "num_key_value_heads",
     "vocab_size", "intermediate_size", "head_dim", "max_position_embeddings"}

\* schemas.HardwareCreate accepts the body
ValidHardwareCreate(body) ==
    /\ body.name # ""
    /\ \A k \in HardwareFigures : Ge(body[k], Zero)

\* schemas.ModelCreate accepts the body
ValidModelCreate(body) ==
    /\ body.name # "" /\ body.huggingface_id # ""
    /\ Ge(body.params_billions, Zero)
    /\ \A k \in ModelFigures : body[k] >= 0

\* crud create_hardware: the row added for a body
HardwareRow(id, body) ==
    [k \in DOMAIN body \cup {"id", "is_preset"} |->
        IF k = "id" THEN id ELSE IF k = "is_preset" THEN FALSE ELSE body[k]]

\* crud create_model: the row added for a body
ModelRow(id, body) ==
    [k \in DOMAIN body \cup {"id", "is_preset"} |->
        IF k = "id" THEN id ELSE IF k = "is_preset" THEN FALSE ELSE body[k]]

hardware_to_dict(row) == [k \in HardwareFigures |-> row[k]]

model_to_dict(row) == [k \in ModelFigures \cup {"params_billions"} |-> row[k]]

\* the fields schemas.CalculationInput declares
CalculationInputFields ==
    {"hardware_id", "model_id", "precision", "first_token_latency_ms", "tpot_ms",
     "context_length", "generated_length", "batch_size"}

\* schemas.CalculationInput accepts the body
ValidCalculationInput(body) ==
    /\ {"hardware_id", "model_id", "first_token_latency_ms", "tpot_ms", "context_length",
        "generated_length"} \subseteq DOMAIN body
    /\ Get(body, "precision", "fp16") \in Precisions
    /\ Gt(body.first_token_latency_ms, Zero)
    /\ Gt(body.tpot_ms, Zero)
    /\ body.context_length > 0
    /\ body.generated_length > 0
    /\ Get(body, "batch_size", 1) >= 1

\* the CalculationInput object parsed from an accepted body: the declared
\* fields with their defaults; keys the schema does not declare are dropped
ParseCalculationInput(body) ==
    [k \in CalculationInputFields |->
        IF k = "precision" THEN Get(body, "precision", "fp16")
        ELSE IF k = "batch_size" THEN Get(body, "batch_size", 1)
        ELSE body[k]]

\* the attributes of input_data the handler reads to build calc_input, in order
CalcInputAttributes ==
    <<"gpu_count", "precision", "attention_precision", "ffn_precision",
      "first_token_latency_ms", "tpot_ms", "context_length", "generated_length",
      "batch_size">>

\* the keys of the calculator's result the handler reads to build CalculationResult
CalculationResultKeys ==
    <<"mfu", "memory_bandwidth_utilization", "prefill_mfu", "prefill_bandwidth_utilization",
      "decode_mfu", "decode_bandwidth_utilization", "theoretical_flops", "actual_flops",
      "peak_flops", "prefill_flops", "decode_flops", "kv_cache_bytes", "model_memory_bytes",
      "bottleneck_type", "tokens_per_second", "total_time_ms">>

\* the first name of seq that obj lacks, or None
FirstMissing(seq, obj) ==
    IF \E i \in 1..Len(seq) : seq[i] \notin DOMAIN obj
    THEN seq[CHOOSE i \in 1..Len(seq) :
                 /\ seq[i] \notin DOMAIN obj
                 /\ \A j \in 1..(i - 1) : seq[j] \in DOMAIN obj]
    ELSE None

\* "except Exception as e": the handler's answer to an exception it catches
CalculationFailure(error) ==
    Response(200, [success |-> FALSE, result |-> None, error |-> error, suggestions |-> <<>>])

\* the answer of a handler that leaves the calculation_history table alone
Unrecorded(resp, history) == [response |-> resp, history |-> history]

\* variant: mfu and bandwidth utilization handed over in each other's place
suggestions_of_result_swapped(res, hardware_dict, model_dict) ==
    get_optimization_suggestions(res.memory_bandwidth_utilization, res.mfu,
                                 hardware_dict, model_dict, res.bottleneck_type)

\* routers/calculator.py calculate_mfu, step 5: the advisor is given the
\* values of the calculator's result
suggestions_of_result(res, hardware_dict, model_dict) ==
    get_optimization_suggestions(res.mfu, res.memory_bandwidth_utilization,
                                 hardware_dict, model_dict, res.bottleneck_type)

\* routers/calculator.py calculate_mfu, steps 5 to 7 and the return, for the
\* value res the calculator returned
calculation_response(input, hardware_dict, model_dict, calc_input, res, history) ==
    IF "raised" \in DOMAIN res
    THEN Unrecorded(CalculationFailure([exception |-> res.raised, name |-> ""]), history)
    ELSE IF \E i \in 1..Len(CalculationResultKeys) : CalculationResultKeys[i] \notin DOMAIN res
    THEN Unrecorded(CalculationFailure(
                        [exception |-> "KeyError",
                         name |-> FirstMissing(CalculationResultKeys, res)]), history)
    ELSE [response |->
              Response(200, [success |-> TRUE, result |-> res, error |-> None,
                             suggestions |->
                                 suggestions_of_result(res, hardware_dict, model_dict)]),
          history |->
              Append(history, [id |-> NextId(history),
                               hardware_id |-> input.hardware_id,
                               model_id |-> input.model_id,
                               input_params |-> calc_input,
                               result |-> res])]

\* routers/calculator.py calculate_mfu, steps 3 and 4, for the rows found
calculation_of(input, hw_row, model_row, history) ==
    IF \E i \in 1..Len(CalcInputAttributes) : CalcInputAttributes[i] \notin DOMAIN input
    THEN Unrecorded(CalculationFailure(
                        [exception |-> "AttributeError",
                         name |-> FirstMissing(CalcInputAttributes, input)]), history)
    ELSE calculation_response(
             input, hardware_to_dict(hw_row), model_to_dict(model_row),
             [k \in {CalcInputAttributes[i] : i \in 1..Len(CalcInputAttributes)} |-> input[k]],
             calculate_mfu(hardware_to_dict(hw_row), model_to_dict(model_row),
                 [k \in {CalcInputAttributes[i] : i \in 1..Len(CalcInputAttributes)}
                     |-> input[k]]),
             history)

\* variant: the model row is used without the "if not model" check, so the
\* attribute read on None is caught by "except Exception"
router_calculate_mfu_unchecked_model(input, hw_table, m_table, history) ==
    IF GetById(hw_table, input.hardware_id) = None
    THEN Unrecorded(HTTPException(404, "Hardware not found"), history)
    ELSE IF GetById(m_table, input.model_id) = None
    THEN Unrecorded(CalculationFailure([exception |-> "AttributeError",
                                        name |-> "params_billions"]), history)
    ELSE calculation_of(input, GetById(hw_table, input.hardware_id),
                        GetById(m_table, input.model_id), history)

\* routers/calculator.py, POST /api/v1/calculate/mfu, for input_data parsed
\* from a body the schema accepted: the response and the calculation_history
\* table after the request
router_calculate_mfu(input, hw_table, m_table, history) ==
    IF GetById(hw_table, input.hardware_id) = None
    THEN Unrecorded(HTTPException(404, "Hardware not found"), history)
    ELSE IF GetById(m_table, input.model_id) = None
    THEN Unrecorded(HTTPException(404, "Model not found"), history)
    ELSE calculation_of(input, GetById(hw_table, input.hardware_id),
                        GetById(m_table, input.model_id), history)

\* the fields of the ConcurrencyInput schema the handler reads
ConcurrencyInputFields ==
    {"hardware_id", "model_id", "gpu_count", "context_length", "precision",
     "framework_overhead_gb"}

\* the ConcurrencyInput schema accepts the body: a device count of 1 to 32, a
\* positive context length, a known precision, a non-negative overhead
ValidConcurrencyInput(body) ==
    /\ ConcurrencyInputFields \subseteq DOMAIN body
    /\ body.gpu_count >= 1 /\ body.gpu_count <= 32
    /\ body.context_length > 0
    /\ body.precision \in Precisions
    /\ Ge(body.framework_overhead_gb, Zero)

\* the ConcurrencyInput object parsed from an accepted body
ParseConcurrencyInput(body) == [k \in ConcurrencyInputFields |-> body[k]]

\* routers/concurrency.py, "except Exception as e"
ConcurrencyFailure(error) ==
    Response(200, [success |-> FALSE, error |-> error, result |-> None])

\* the keys of the calculation's result the handler reads to build
\* ConcurrencyResult, in order
ConcurrencyResultKeys ==
    <<"gpu_count", "max_concurrency_without_pa", "max_concurrency_with_pa",
      "memory_breakdown", "hardware_memory_gb", "available_memory_gb">>

\* the ConcurrencyResult and MemoryBreakdown schemas accept the result: a
\* breakdown of weight, framework overhead, KV-cache, activation and total
\* per-request memory
ConcurrencyResultAccepts(res) ==
    DOMAIN res.memory_breakdown =
        {"weight_memory_gb", "framework_overhead_gb", "kv_cache_memory_gb",
         "activation_memory_gb", "total_memory_gb"}

\* step 5: the ConcurrencyHistory row added and committed for a result
ConcurrencyHistoryRow(id, input, res) ==
    [id |-> id,
     hardware_id |-> input.hardware_id,
     model_id |-> input.model_id,
     input_params |-> [k \in {"gpu_count", "context_length", "precision",
                              "framework_overhead_gb"} |-> input[k]],
     result |-> res]

\* routers/concurrency.py calculate_concurrency, steps 5 and 6, for the value
\* res the calculation returned: the row is committed before the response is
\* built
concurrency_response(input, res, history) ==
    IF "raised" \in DOMAIN res
    THEN Unrecorded(ConcurrencyFailure([exception |-> res.raised, name |-> ""]), history)
    ELSE [response |->
              IF FirstMissing(ConcurrencyResultKeys, res) # None
              THEN ConcurrencyFailure([exception |-> "KeyError",
                                       name |-> FirstMissing(ConcurrencyResultKeys, res)])
              ELSE IF ~ConcurrencyResultAccepts(res)
              THEN ConcurrencyFailure([exception |-> "ValidationError",
                                       name |-> "memory_breakdown"])
              ELSE Response(200, [success |-> TRUE, result |-> res, error |-> None]),
          history |-> Append(history, ConcurrencyHistoryRow(NextId(history), input, res))]

\* variant: the history row is saved before the calculation is attempted
concurrency_of_saved_first(input, hw_row, model_row, history) ==
    [response |->
         concurrency_response(
             input,
             calculate_concurrency_logic(
                 hardware_to_dict(hw_row), model_to_dict(model_row), input.gpu_count,
                 input.context_length, input.precision, input.framework_overhead_gb),
             history).response,
     history |-> Append(history, ConcurrencyHistoryRow(NextId(history), input, None))]

\* routers/concurrency.py calculate_concurrency, steps 3 to 6, for the rows found
concurrency_of(input, hw_row, model_row, history) ==
    concurrency_response(
        input,
        calculate_concurrency_logic(
            hardware_to_dict(hw_row), model_to_dict(model_row), input.gpu_count,
            input.context_length, input.precision, input.framework_overhead_gb),
        history)

\* routers/concurrency.py, POST /api/v1/calculate/concurrency, for input_data
\* parsed from an accepted body: the response and the concurrency_history
\* table after the request
router_calculate_concurrency(input, hw_table, m_table, history) ==
    IF GetById(hw_table, input.hardware_id) = None
    THEN Unrecorded(HTTPException(404, "Hardware not found"), history)
    ELSE IF GetById(m_table, input.model_id) = None
    THEN Unrecorded(HTTPException(404, "Model not found"), history)
    ELSE concurrency_of(input, GetById(hw_table, input.hardware_id),
                        GetById(m_table, input.model_id), history)

(***************************************************************************)
(* Pipeline run: calculate_mfu, then get_optimization_suggestions on its   *)
(* result, as steps 4 and 5 of the MFU endpoint compose them               *)
(***************************************************************************)
PipelineHardware ==
    { A100_80GB,
      \* devices whose peak is of the order of the small workloads
      HW(Dec(99995, -13), Dec(1, -8), Dec(5, -9), F(80), Dec(2039, -3)),
      HW(Dec(8, -9), Dec(8, -9), Dec(8, -9), F(80), Dec(2039, -3)),
      \* A100 compute with memory systems of the order of the small workloads
      HW(F(1248), F(624), F(312), F(80), Dec(25, -10)),
      HW(F(1248), F(624), F(312), F(80), Dec(2857, -12)) }

PipelineInit ==
    /\ pc = "ready"
    /\ hardware \in PipelineHardware
    /\ model \in EstimatorModels
    /\ input_data \in EstimatorInputs
    /\ result = NoValue
    /\ hardware_table = <<>> /\ model_table = <<>>
    /\ calculation_history = <<>> /\ concurrency_history = <<>> /\ response = None

\* step 5, reached when step 4 did not raise
SuggestForResult ==
    /\ pc = "done"
    /\ "raised" \notin DOMAIN result
    /\ response' = suggestions_of_result(result, hardware, model)
    /\ pc' = "advised"
    /\ UNCHANGED <<hardware, model, input_data, result, hardware_table, model_table,
                   calculation_history, concurrency_history>>

PipelineNext == CalculateMfu \/ SuggestForResult

SpecPipeline == PipelineInit /\ [][PipelineNext]_vars

\* C25: in the composed pipeline every result the estimator classifies
\* "memory" yields a suggestion list that contains the medium-priority
\* quantization and paged-KV-cache suggestions.
C25_MemoryResultGetsMediumAdvice ==
    (pc = "advised" /\ result.bottleneck_type = "memory") =>
        /\ CountOf(response, "Model Optimization", "medium") = 1
        /\ CountOf(response, "Config Optimization", "medium") = 1

\* C25 as amended: a result classified "memory" reports a bandwidth
\* utilization >= 70, and its suggestion list contains the medium-priority
\* quantization and paged-KV-cache suggestions exactly when the reported
\* bandwidth utilization is > 70; the low-priority suggestion is always there.
C25_MemoryResultAdviceFollowsReported ==
    (pc = "advised" /\ result.bottleneck_type = "memory") =>
        /\ Ge(result.memory_bandwidth_utilization, F(70))
        /\ CountOf(response, "Model Optimization", "medium")
               = Indicator(Gt(result.memory_bandwidth_utilization, F(70)))
        /\ CountOf(response, "Config Optimization", "medium")
               = Indicator(Gt(result.memory_bandwidth_utilization, F(70)))
        /\ CountOf(response, "System Config", "low") = 1

C25_Witness ==
    /\ pc = "advised"
    /\ result.bottleneck_type = "memory"
    /\ result.memory_bandwidth_utilization = F(80)
    /\ CountOf(response, "Model Optimization", "medium") = 1
    /\ CountOf(response, "Config Optimization", "medium") = 1

\* C26: in the composed pipeline a result the estimator classifies "compute"
\* never yields a high-priority suggestion: only medium and low suggestions
\* are returned.
C26_ComputeResultGetsNoHighAdvice ==
    (pc = "advised" /\ result.bottleneck_type = "compute") =>
        /\ CountPriority(response, "high") = 0
        /\ CountOf(response, "Hardware Upgrade", "high") = 0
        /\ CountOf(response, "Precision Optimization", "high") = 0
        /\ \A i \in 1..Len(response) : response[i].priority \in {"medium", "low"}
        /\ Len(response) >= 1

C26_Witness ==
    /\ pc = "advised"
    /\ result.bottleneck_type = "compute"
    /\ result.mfu = F(70)
    /\ CountPriority(response, "low") = 1
    /\ CountPriority(response, "high") = 0

(***************************************************************************)
(* Service run: requests against the HTTP service, one at a time           *)
(***************************************************************************)
\* a device whose peak is of the order of the small workloads
MicroDevice == HW(Dec(99995, -13), Dec(1, -8), Dec(5, -9), F(80), Dec(2039, -3))

HardwareBodies ==
    { [k \in HardwareFigures \cup {"name"} |-> IF k = "name" THEN n ELSE hw[k]]
      : n \in {"A100", "H100", ""}, hw \in {A100_80GB, MicroDevice} }

ModelBodies ==
    { [k \in ModelFigures \cup {"params_billions", "name", "huggingface_id"} |->
          IF k = "name" THEN n ELSE IF k = "huggingface_id" THEN n ELSE m[k]]
      : n \in {"tiny/one", "tiny/two"},
        m \in {mm \in EstimatorModels : mm.num_layers <= 1 /\ mm.num_attention_heads = 1} }

\* request bodies: with and without the three keys the schema does not
\* declare; a first-token latency of 0 is one the schema rejects
CalculationBodies ==
    LET declared == [hardware_id : {1, MaxRows + 1},
                     model_id : {1, MaxRows + 1},
                     precision : {"fp16", "fp32"},
                     first_token_latency_ms : {Zero, Dec(48, 0)},
                     tpot_ms : {Dec(10, 0)},
                     context_length : {5},
                     generated_length : {2},
                     batch_size : {1}]
        extra == [gpu_count |-> 1, attention_precision |-> "fp16", ffn_precision |-> "fp16"]
    IN declared \cup { [k \in DOMAIN b \cup DOMAIN extra |->
                           IF k \in DOMAIN extra THEN extra[k] ELSE b[k]] : b \in declared }

\* request bodies of the concurrency endpoint: the first id and one past the
\* tables; a device count of 33 is one the schema rejects; with no overhead a
\* model without layers or parameters needs no memory per request
ConcurrencyBodies ==
    [hardware_id : {1, MaxRows + 1},
     model_id : {1, MaxRows + 1},
     gpu_count : {1, 33},
     context_length : {512},
     precision : {"fp16"},
     framework_overhead_gb : {Zero}]

ServiceInit ==
    /\ pc = "serving"
    /\ hardware = NoValue /\ model = NoValue /\ input_data = NoValue /\ result = NoValue
    /\ hardware_table = <<>>
    /\ model_table = <<>>
    /\ calculation_history = <<>>
    /\ concurrency_history = <<>>
    /\ response = None

core_vars == <<pc, hardware, model, input_data, result>>

\* POST /api/v1/hardware
CreateHardware(body) ==
    /\ pc = "serving"
    /\ IF ~ValidHardwareCreate(body)
       THEN response' = RequestValidationError /\ UNCHANGED hardware_table
       ELSE IF get_hardware_by_name(hardware_table, body.name) = MultipleResultsFound
       THEN response' = InternalServerError /\ UNCHANGED hardware_table
       ELSE IF get_hardware_by_name(hardware_table, body.name) # None
       THEN /\ response' = HTTPException(400, "Hardware with this name already exists")
            /\ UNCHANGED hardware_table
       ELSE LET row == HardwareRow(NextId(hardware_table), body)
            IN /\ Len(hardware_table) < MaxRows /\ row.id <= MaxId
               /\ hardware_table' = Append(hardware_table, row)
               /\ response' = Response(201, row)
    /\ UNCHANGED <<core_vars, model_table, calculation_history, concurrency_history>>

\* POST /api/v1/models
CreateModel(body) ==
    /\ pc = "serving"
    /\ IF ~ValidModelCreate(body)
       THEN response' = RequestValidationError /\ UNCHANGED model_table
       ELSE IF get_model_by_hf_id(model_table, body.huggingface_id) = MultipleResultsFound
       THEN response' = InternalServerError /\ UNCHANGED model_table
       ELSE IF get_model_by_hf_id(model_table, body.huggingface_id) # None
       THEN /\ response' = HTTPException(400, "Model with this Hugging Face ID already exists")
            /\ UNCHANGED model_table
       ELSE LET row == ModelRow(NextId(model_table), body)
            IN /\ Len(model_table) < MaxRows /\ row.id <= MaxId
               /\ model_table' = Append(model_table, row)
               /\ response' = Response(201, row)
    /\ UNCHANGED <<core_vars, hardware_table, calculation_history, concurrency_history>>

\* POST /api/v1/calculate/mfu
PostCalculateMfu(body) ==
    /\ pc = "serving"
    /\ Len(calculation_history) < MaxHistory
    /\ IF ~ValidCalculationInput(body)
       THEN response' = RequestValidationError /\ UNCHANGED calculation_history
       ELSE LET answer == router_calculate_mfu(ParseCalculationInput(body), hardware_table,
                                               model_table, calculation_history)
            IN /\ response' = answer.response
               /\ calculation_history' = answer.history
    /\ UNCHANGED <<core_vars, hardware_table, model_table, concurrency_history>>

\* POST /api/v1/calculate/concurrency
PostCalculateConcurrency(body) ==
    /\ pc = "serving"
    /\ Len(concurrency_history) < MaxHistory
    /\ IF ~ValidConcurrencyInput(body)
       THEN response' = RequestValidationError /\ UNCHANGED concurrency_history
       ELSE LET answer == router_calculate_concurrency(
                               ParseConcurrencyInput(body), hardware_table, model_table,
                               concurrency_history)
            IN /\ response' = answer.response
               /\ concurrency_history' = answer.history
    /\ UNCHANGED <<core_vars, hardware_table, model_table, calculation_history>>

ServiceNext ==
    \/ \E body \in HardwareBodies : CreateHardware(body)
    \/ \E body \in ModelBodies : CreateModel(body)
    \/ \E body \in CalculationBodies : PostCalculateMfu(body)
    \/ \E body \in ConcurrencyBodies : PostCalculateConcurrency(body)

SpecService == ServiceInit /\ [][ServiceNext]_vars

\* C3: a POST /api/v1/calculate/mfu naming an existing hardware id and an
\* existing model id with a valid workload answers success = true with a
\* populated result and a non-empty suggestions list, and appends exactly one
\* CalculationHistory row for the request.
C3_CalculateSucceedsAndRecords ==
    [][\A body \in CalculationBodies :
          (/\ PostCalculateMfu(body)
           /\ ValidCalculationInput(body)
           /\ GetById(hardware_table, body.hardware_id) # None
           /\ GetById(model_table, body.model_id) # None)
          => /\ response'.status = 200
             /\ response'.body.success = TRUE
             /\ response'.body.result # None
             /\ Len(response'.body.suggestions) > 0
             /\ Len(calculation_history') = Len(calculation_history) + 1]_vars

\* C21: POST /api/v1/calculate/mfu and POST /api/v1/calculate/concurrency
\* answer 404 when the hardware id or the model id does not exist, and then
\* no calculation is performed (the answer carries no result) and both
\* history tables are left unchanged.
C21_UnknownIdsAnswer404 ==
    [][/\ \A body \in CalculationBodies :
             (/\ PostCalculateMfu(body)
              /\ ValidCalculationInput(body)
              /\ \/ GetById(hardware_table, body.hardware_id) = None
                 \/ GetById(model_table, body.model_id) = None)
             => /\ response'.status = 404
                /\ DOMAIN response'.body = {"detail"}
                /\ calculation_history' = calculation_history
                /\ concurrency_history' = concurrency_history
       /\ \A body \in ConcurrencyBodies :
             (/\ PostCalculateConcurrency(body)
              /\ ValidConcurrencyInput(body)
              /\ \/ GetById(hardware_table, body.hardware_id) = None
                 \/ GetById(model_table, body.model_id) = None)
             => /\ response'.status = 404
                /\ DOMAIN response'.body = {"detail"}
                /\ calculation_history' = calculation_history
                /\ concurrency_history' = concurrency_history]_vars

\* a 404 for a missing model after the hardware row was found
C21_Witness ==
    /\ pc = "serving"
    /\ response = HTTPException(404, "Model not found")
    /\ Len(hardware_table) > 0
    /\ Len(model_table) < MaxRows
    /\ calculation_history = <<>>

\* the per-request memory of a request is 0: no overhead, and a model
\* without parameters or layers
NoMemoryPerRequest(body) ==
    /\ body.framework_overhead_gb = Zero
    /\ GetById(model_table, body.model_id).params_billions = Zero
    /\ GetById(model_table, body.model_id).num_layers = 0

ValidHardwareUpdate(body) ==
    /\ "name" \in DOMAIN body => body.name # ""
    /\ \A k \in DOMAIN body \cap HardwareFigures : Ge(body[k], Zero)

\* crud update_hardware: the row after setattr of every field the body sets
update_hardware_row(row, body) ==
    [k \in DOMAIN row |-> IF k \in DOMAIN body THEN body[k] ELSE row[k]]

\* crud update_hardware: the table after the commit
update_hardware(table, hardware_id, body) ==
    [k \in 1..Len(table) |->
        IF table[k].id = hardware_id THEN update_hardware_row(table[k], body) ELSE table[k]]

\* crud delete_hardware: the table after the commit
delete_hardware(table, hardware_id) ==
    LET Kept(k) == table[k].id # hardware_id
        kept == {k \in 1..Len(table) : Kept(k)}
        Nth(j) == CHOOSE k \in kept : Cardinality({h \in kept : h < k}) = j - 1
    IN [j \in 1..Cardinality(kept) |-> table[Nth(j)]]

\* crud bulk_create_hardware: every name is looked up in the table as it was
\* before the call, the new objects are added together after the loop; the
\* list returned is under "created"
bulk_create_hardware(table, hardware_list) ==
    IF \E j \in 1..Len(hardware_list) :
           get_hardware_by_name(table, hardware_list[j].name) = MultipleResultsFound
    THEN MultipleResultsFound
    ELSE LET IsNew(body) == get_hardware_by_name(table, body.name) = None
             fresh == SelectSeq(hardware_list, IsNew)
         IN [created |-> [j \in 1..Len(fresh) |->
                             HardwareRow(NextId(table) + j - 1, fresh[j])]]

\* the columns an imported sheet must have
required_columns == HardwareFigures \cup {"name"}

\* router import_hardware: the response and the table after the request
import_hardware(file, table) ==
    IF file.extension \notin {".xlsx", ".xls"}
    THEN [response |-> HTTPException(400, "Only Excel files are supported"), table |-> table]
    ELSE IF ~(required_columns \subseteq file.columns)
    THEN [response |-> HTTPException(400, "Missing required columns"), table |-> table]
    ELSE LET hardware_list == SelectSeq(file.rows, ValidHardwareCreate)
             answer == bulk_create_hardware(table, hardware_list)
             created == answer.created
         IN IF "raised" \in DOMAIN answer
            THEN [response |-> HTTPException(400, "Multiple rows were found when one or none was required"),
                  table |-> table]
            ELSE [response |-> Response(200, [imported_count |-> Len(created),
                                              hardware_list |-> created]),
                  table |-> table \o created]

\* PUT /api/v1/hardware/{hardware_id}
UpdateHardware(hardware_id, body) ==
    /\ pc = "serving"
    /\ IF ~ValidHardwareUpdate(body)
       THEN response' = RequestValidationError /\ UNCHANGED hardware_table
       ELSE IF GetById(hardware_table, hardware_id) = None
       THEN response' = HTTPException(404, "Hardware not found") /\ UNCHANGED hardware_table
       ELSE /\ hardware_table' = update_hardware(hardware_table, hardware_id, body)
            /\ response' = Response(200, GetById(hardware_table', hardware_id))
    /\ UNCHANGED <<core_vars, model_table, calculation_history, concurrency_history>>

\* DELETE /api/v1/hardware/{hardware_id}
DeleteHardware(hardware_id) ==
    /\ pc = "serving"
    /\ IF GetById(hardware_table, hardware_id) = None
       THEN response' = HTTPException(404, "Hardware not found") /\ UNCHANGED hardware_table
       ELSE /\ hardware_table' = delete_hardware(hardware_table, hardware_id)
            /\ response' = Response(200, [message |-> "Hardware deleted successfully"])
    /\ UNCHANGED <<core_vars, model_table, calculation_history, concurrency_history>>

\* POST /api/v1/hardware/import
ImportHardware(file) ==
    /\ pc = "serving"
    /\ LET answer == import_hardware(file, hardware_table)
       IN /\ Len(answer.table) <= MaxRows /\ NextId(answer.table) <= MaxId + 1
          /\ hardware_table' = answer.table
          /\ response' = answer.response
    /\ UNCHANGED <<core_vars, model_table, calculation_history, concurrency_history>>

\* request bodies of the catalog run: one device under two names, and a name
\* the schema rejects
CatalogBodies == {body \in HardwareBodies : body.fp16_peak_tflops = A100_80GB.fp16_peak_tflops}

\* bodies of an update: a rename, a rename the schema rejects, a new figure
UpdateBodies ==
    {[name |-> n] : n \in {"A100", "H100", ""}} \cup {[memory_size_gb |-> F(40)]}

HardwareIds == 1..MaxId

\* uploaded files: sheets of rows, a file that is no Excel file, a sheet
\* without the name column
ImportFiles ==
    {[extension |-> ".xlsx", columns |-> required_columns, rows |-> rows] :
        rows \in UNION {[1..n -> CatalogBodies] : n \in 0..MaxImportRows}}
    \cup {[extension |-> ".csv", columns |-> required_columns, rows |-> <<>>],
          [extension |-> ".xlsx", columns |-> HardwareFigures, rows |-> <<>>]}

CatalogNext ==
    \/ \E body \in CatalogBodies : CreateHardware(body)
    \/ \E hardware_id \in HardwareIds, body \in UpdateBodies : UpdateHardware(hardware_id, body)
    \/ \E hardware_id \in HardwareIds : DeleteHardware(hardware_id)
    \/ \E file \in ImportFiles : ImportHardware(file)

SpecCatalog == ServiceInit /\ [][CatalogNext]_vars

\* the names of a table's rows
NamesOf(table) == {table[k].name : k \in 1..Len(table)}

\* C28: after any sequence of hardware create, update, delete and import
\* requests, no two rows of the hardware table have the same name.
C28_NamesUnique ==
    \A j, k \in 1..Len(hardware_table) :
        hardware_table[j].name = hardware_table[k].name => j = k

\* C22: a create whose name is already in the catalog answers 400 and leaves
\* the catalog as it was; an import of a well-formed sheet answers 200, keeps
\* the rows there were, creates a row for exactly the valid rows whose name
\* was not in the catalog, and counts in imported_count the rows it created.
C22_DuplicatesRejectedOrSkipped ==
    [][/\ \A body \in CatalogBodies :
             ( /\ CreateHardware(body)
               /\ ValidHardwareCreate(body)
               /\ body.name \in NamesOf(hardware_table) )
             => /\ response'.status = 400
                /\ hardware_table' = hardware_table
       /\ \A file \in ImportFiles :
             ( /\ ImportHardware(file)
               /\ file.extension = ".xlsx"
               /\ required_columns \subseteq file.columns )
             => LET old == NamesOf(hardware_table)
                    IsFresh(body) == ValidHardwareCreate(body) /\ body.name \notin old
                    fresh == SelectSeq(file.rows, IsFresh)
                IN /\ response'.status = 200
                   /\ response'.body.imported_count = Len(fresh)
                   /\ Len(hardware_table') = Len(hardware_table) + Len(fresh)
                   /\ SubSeq(hardware_table', 1, Len(hardware_table)) = hardware_table
                   /\ \A j \in 1..Len(fresh) :
                          hardware_table'[Len(hardware_table) + j].name = fresh[j].name
      ]_vars

(***************************************************************************)
(* Startup run: application startups among catalog requests                *)
(***************************************************************************)

\* how many entries of each preset list the run creates
MaxPresets == 2

PresetHardware(name, hw) ==
    [k \in HardwareFigures \cup {"name"} |-> IF k = "name" THEN name ELSE hw[k]]

PresetModel(name, hf_id, params, layers, hidden, heads, kv_heads, vocab, inter, positions) ==
    [name |-> name, huggingface_id |-> hf_id, params_billions |-> params,
     num_layers |-> layers, hidden_size |-> hidden, num_attention_heads |-> heads,
     num_key_value_heads |-> kv_heads, vocab_size |-> vocab, intermediate_size |-> inter,
     head_dim |-> 128, max_position_embeddings |-> positions]

\* main.py hardware_presets; the names are written with Ascend for the two
\* characters the source has
hardware_presets ==
    << PresetHardware("Ascend 910B4 32G", HW(F(280), F(140), F(70), F(32), F(1))),
       PresetHardware("Ascend 910B4-1 64G", HW(F(280), F(140), F(70), F(64), Dec(12, -1))),
       PresetHardware("Ascend 300I Duo 96G", HW(F(140), F(70), F(35), F(96), Dec(408, -3))),
       PresetHardware("Ascend 300v Pro 48G", HW(F(140), F(70), F(35), F(48), Dec(408, -3))) >>

\* main.py model_presets
model_presets ==
    << PresetModel("Qwen3-30B-A3B", "Qwen/Qwen3-30B-A3B", Dec(305, -1), 48, 2048, 32, 4, 151936, 6144, 32768),
       PresetModel("Qwen3-32B", "Qwen/Qwen3-32B", F(32), 64, 5120, 40, 8, 151936, 27648, 40960),
       PresetModel("Qwen3-8B", "Qwen/Qwen3-8B", F(8), 36, 4096, 32, 8, 151936, 12288, 32768),
       PresetModel("DeepSeek-V3.2", "deepseek-ai/DeepSeek-V3.2", F(685), 61, 7168, 128, 128, 129280, 2048, 163840),
       PresetModel("Magistral-Small-2509", "mistralai/Magistral-Small-2509", F(24), 28, 6144, 48, 8, 32768, 16384, 32768) >>

\* the presets the run creates
HardwarePresets == SubSeq(hardware_presets, 1, MaxPresets)
ModelPresets == SubSeq(model_presets, 1, MaxPresets)

\* crud create_hardware for each body in turn: the table after the commits
create_all_hardware(table, bodies) ==
    table \o [j \in 1..Len(bodies) |-> HardwareRow(NextId(table) + j - 1, bodies[j])]

\* crud create_model for each body in turn: the table after the commits
create_all_models(table, bodies) ==
    table \o [j \in 1..Len(bodies) |-> ModelRow(NextId(table) + j - 1, bodies[j])]

\* crud delete_model: the table after the commit
delete_model(table, model_id) ==
    LET kept == {k \in 1..Len(table) : table[k].id # model_id}
        Nth(j) == CHOOSE k \in kept : Cardinality({h \in kept : h < k}) = j - 1
    IN [j \in 1..Cardinality(kept) |-> table[Nth(j)]]

\* main.py init_preset_data_on_first_run: the two tables after the call
init_preset_data_on_first_run(hw_table, m_table) ==
    IF Len(hw_table) = 0
    THEN [hardware_table |-> create_all_hardware(hw_table, HardwarePresets),
          model_table |-> create_all_models(m_table, ModelPresets)]
    ELSE [hardware_table |-> hw_table, model_table |-> m_table]

\* main.py startup_event: the application starts, or starts again
Startup ==
    /\ pc \in {"stopped", "serving"}
    /\ LET db == init_preset_data_on_first_run(hardware_table, model_table)
       IN /\ NextId(db.model_table) <= 2 * MaxPresets + 1
          /\ hardware_table' = db.hardware_table
          /\ model_table' = db.model_table
    /\ pc' = "serving"
    /\ response' = None
    /\ UNCHANGED <<hardware, model, input_data, result, calculation_history, concurrency_history>>

\* DELETE /api/v1/models/{model_id}
DeleteModel(model_id) ==
    /\ pc = "serving"
    /\ IF GetById(model_table, model_id) = None
       THEN response' = HTTPException(404, "Model not found") /\ UNCHANGED model_table
       ELSE /\ model_table' = delete_model(model_table, model_id)
            /\ response' = Response(200, [message |-> "Model deleted successfully"])
    /\ UNCHANGED <<core_vars, hardware_table, calculation_history, concurrency_history>>

\* the database file does not exist before the first startup
StartupInit ==
    /\ pc = "stopped"
    /\ hardware = NoValue /\ model = NoValue /\ input_data = NoValue /\ result = NoValue
    /\ hardware_table = <<>>
    /\ model_table = <<>>
    /\ calculation_history = <<>>
    /\ concurrency_history = <<>>
    /\ response = None

\* request bodies of the startup run: a device and a model of the user's
\* own, and the first preset of each list
StartupHardwareBodies ==
    {body \in CatalogBodies : body.name = "A100"} \cup {hardware_presets[1]}

StartupModelBodies ==
    {body \in ModelBodies : body.name = "tiny/one" /\ body.num_layers = 1}
    \cup {model_presets[1]}

ModelIds == 1..(2 * MaxPresets)

StartupNext ==
    \/ Startup
    \/ \E body \in StartupHardwareBodies : CreateHardware(body)
    \/ \E hardware_id \in HardwareIds : DeleteHardware(hardware_id)
    \/ \E body \in StartupModelBodies : CreateModel(body)
    \/ \E model_id \in ModelIds : DeleteModel(model_id)

SpecStartup == StartupInit /\ [][StartupNext]_vars

\* C29: after any sequence of startups, creates and deletes, every preset
\* hardware name is on at most one row of the hardware table and every preset
\* huggingface_id on at most one row of the models table.
C29_PresetsAtMostOnce ==
    /\ \A j \in 1..Len(HardwarePresets) :
           Cardinality({k \in 1..Len(hardware_table) :
                           hardware_table[k].name = HardwarePresets[j].name}) <= 1
    /\ \A j \in 1..Len(ModelPresets) :
           Cardinality({k \in 1..Len(model_table) :
                           model_table[k].huggingface_id = ModelPresets[j].huggingface_id}) <= 1

====
